---- MODULE Spec2Model ----
(***************************************************************************)
(* A model of fserve's template scanner (src/fserve/jinja_parse.py): the   *)
(* character cursor, the stateful lexer JinjaStatementLexer, the token     *)
(* filter/lookahead (next_token, la) and the document parser               *)
(* JinjaStatementParser, driven by statement_parse.                        *)
(*                                                                         *)
(* Representation.  A character is a one-character string; a Python str is *)
(* a sequence of characters; the cursor's end sentinel -1 is END.  Python  *)
(* None (and, where the code only tests truthiness, the empty value) is    *)
(* NONE for sequences and NoneVal for token values.  A Python function     *)
(* that can raise returns a record with an exc field (NoExc when it        *)
(* returns normally).                                                      *)
(***************************************************************************)
EXTENDS Integers, Sequences, FiniteSets, TLC

VARIABLES
    lexer,      \* the JinjaStatementLexer object (all its fields)
    pc,         \* where statement_parse is: "document", "statement",
                \* "statement_loop", "inline", "inline_loop", "returned", "raised"
    elements,   \* document(): the local list `elements`
    frame,      \* locals of the running statement() / inline() call
    error,      \* the exception statement_parse raised (NoExc if none)
    history     \* the calls a client of the module has completed so far, each
                \* with what it returned; empty while a single call runs

vars == <<lexer, pc, elements, frame, error, history>>

(***************************************************************************)
(* Bounds of the model.                                                    *)
(***************************************************************************)
MaxLen == 4       \* longest free text over Alphabet
MaxBody == 4      \* longest directive body over a body alphabet
MaxStrBody == 3   \* longest string-literal body
MaxTokens == 8    \* cap on the token list of one statement()/inline() call
MaxCalls == 4     \* calls a client makes on one lexer or cursor
MaxK == 3         \* farthest look-ahead a client asks for
MaxCursorCalls == 4   \* calls made on one character cursor
MaxRawCalls == 4      \* raw _next_token() calls made on one lexer
MaxAscii == 200       \* is_ws is applied to every code point up to this one
MaxEofCalls == 4      \* calls made on one lexer that runs past the end of its input
MaxEofK == 2          \* largest k of la(k) made on such a lexer
MaxItems == 2         \* media ranges in one Accept header
MaxProduces == 2      \* media types one handler produces
MaxMtime == 3         \* latest modification time of a template file
MaxLoads == 2         \* loads of templates through one loader
MaxChecks == 3        \* calls of up_to_date callables

\* A local variable: v is evaluated once and Body reads it by name.
Bind(v, Body(_)) == Body(v)

(***************************************************************************)
(* Characters.                                                             *)
(***************************************************************************)
END == "-1"                       \* the sentinel -1 of _do_next
NONE == <<"None">>                \* Python None where a str/list is expected
NOCHAR == "None"                  \* Python None where a character is expected
NoneVal == [type |-> "None"]      \* Python None where a token value is expected
NoExc == [type |-> "None"]        \* no exception raised

Printable ==
    <<" ", "!", "\"", "#", "$", "%", "&", "'", "(", ")", "*", "+", ",", "-", ".", "/",
      "0", "1", "2", "3", "4", "5", "6", "7", "8", "9", ":", ";", "<", "=", ">", "?",
      "@", "A", "B", "C", "D", "E", "F", "G", "H", "I", "J", "K", "L", "M", "N", "O",
      "P", "Q", "R", "S", "T", "U", "V", "W", "X", "Y", "Z", "[", "\\", "]", "^", "_",
      "<96>", "a", "b", "c", "d", "e", "f", "g", "h", "i", "j", "k", "l", "m", "n", "o",
      "p", "q", "r", "s", "t", "u", "v", "w", "x", "y", "z", "{", "|", "}", "~">>

\* "<96>" stands for the backquote (code 96), which a TLA+ string cannot hold.
Controls == <<"\t", "\n", "\r">>
ControlCodes == <<9, 10, 13>>

Chars == {Printable[i] : i \in 1..Len(Printable)} \cup {Controls[i] : i \in 1..Len(Controls)}

OrdTable ==
    [c \in Chars |->
        IF \E i \in 1..Len(Controls) : Controls[i] = c
        THEN ControlCodes[CHOOSE i \in 1..Len(Controls) : Controls[i] = c]
        ELSE 31 + (CHOOSE i \in 1..Len(Printable) : Printable[i] = c)]

\* Python's ord() on the characters the model uses.
ord(ch) == OrdTable[ch]

Truthy(s) == s # NONE /\ s # <<>>

\* is_digit(ch, radix): rv is the result, exc the ValueError of `case _`.
is_digit(ch, radix) ==
    IF ch = END THEN [rv |-> FALSE, exc |-> NoExc]
    ELSE IF radix = 10 THEN [rv |-> ord("0") <= ord(ch) /\ ord(ch) <= ord("9"), exc |-> NoExc]
    ELSE IF radix = 16 THEN
        [rv |-> \/ (ord("0") <= ord(ch) /\ ord(ch) <= ord("9"))
                \/ (ord("a") <= ord(ch) /\ ord(ch) <= ord("f"))
                \/ (ord("A") <= ord(ch) /\ ord(ch) <= ord("F")),
         exc |-> NoExc]
    ELSE IF radix = 8 THEN [rv |-> ord("0") <= ord(ch) /\ ord(ch) <= ord("7"), exc |-> NoExc]
    ELSE [rv |-> FALSE, exc |-> [type |-> "ValueError", message |-> "Bad radix:", radix |-> radix]]

is_alpha(ch) ==
    IF ch = END THEN FALSE
    ELSE \/ (ord("a") <= ord(ch) /\ ord(ch) <= ord("z"))
         \/ (ord("A") <= ord(ch) /\ ord(ch) <= ord("Z"))
         \/ ch = "_"

is_alphanum(ch) ==
    IF ch = END THEN FALSE
    ELSE \/ (ord("a") <= ord(ch) /\ ord(ch) <= ord("z"))
         \/ (ord("A") <= ord(ch) /\ ord(ch) <= ord("Z"))
         \/ (ord("0") <= ord(ch) /\ ord(ch) <= ord("9"))
         \/ ch = "_"

\* is_ws after `cp = ord(ch)` (lines 32-34): the test on the code point
is_ws_cp(cp) ==
    IF cp = 32 \/ (9 <= cp /\ cp <= 13) \/ (8192 <= cp /\ cp <= 8202)
    THEN TRUE
    ELSE cp \in {133, 160, 5670, 8232, 8233, 8239, 8287, 12288}

is_ws(ch) ==
    IF ch = END THEN FALSE
    ELSE is_ws_cp(ord(ch))

(***************************************************************************)
(* Tokens.                                                                 *)
(***************************************************************************)
StrVal(s) == [type |-> "str", s |-> s]
IntVal(n) == [type |-> "int", n |-> n]
\* A float is the decimal mant * 10^exp, mant not a multiple of 10 (0 is <<0, 0>>).
FloatVal(mant, exp) == [type |-> "float", mant |-> mant, exp |-> exp]

Token(tok_type, text, offset, value) ==
    [tok_type |-> tok_type, text |-> text, offset |-> offset,
     value |-> IF value # NoneVal THEN value ELSE StrVal(text)]

NoTok == [tok_type |-> "None", text |-> <<>>, offset |-> 0, value |-> NoneVal]

(***************************************************************************)
(* JinjaStatementLexer: construction and the character cursor.             *)
(***************************************************************************)
JinjaStatementLexer(template_text, block_start, block_end, inline_start, inline_end, comment_start, comment_end, line_statement_prefix, line_comment_prefix, ignore_tokens) ==
    [template_text |-> template_text,
     block_start |-> block_start, block_end |-> block_end,
     inline_start |-> inline_start, inline_end |-> inline_end,
     comment_start |-> comment_start, comment_end |-> comment_end,
     line_statement_prefix |-> line_statement_prefix,
     line_comment_prefix |-> line_comment_prefix,
     ignore_tokens |-> ignore_tokens,
     buf_tok |-> NoTok, buf_state |-> -1,
     template_pos |-> 0, ch_buf |-> <<>>, la_buf |-> <<>>, state |-> 0, buf |-> NONE]

\* _do_next moving template_pos also when it takes a peeked character: the
\* character after it is skipped
_do_next_advancing(L) ==
    IF L.ch_buf # <<>>
    THEN [L |-> [L EXCEPT !.ch_buf = Tail(@), !.template_pos = @ + 1], rv |-> Head(L.ch_buf)]
    ELSE IF L.template_pos < Len(L.template_text)
         THEN [L |-> [L EXCEPT !.template_pos = @ + 1], rv |-> L.template_text[L.template_pos + 1]]
         ELSE [L |-> L, rv |-> END]

\* _do_next with its end test off by one: the last character is never delivered
_do_next_short(L) ==
    IF L.ch_buf # <<>>
    THEN [L |-> [L EXCEPT !.ch_buf = Tail(@)], rv |-> Head(L.ch_buf)]
    ELSE IF L.template_pos < Len(L.template_text) - 1
         THEN [L |-> [L EXCEPT !.template_pos = @ + 1], rv |-> L.template_text[L.template_pos + 1]]
         ELSE [L |-> L, rv |-> END]

_do_next(L) ==
    IF L.ch_buf # <<>>
    THEN [L |-> [L EXCEPT !.ch_buf = Tail(@)], rv |-> Head(L.ch_buf)]
    ELSE IF L.template_pos < Len(L.template_text)
         THEN [L |-> [L EXCEPT !.template_pos = @ + 1], rv |-> L.template_text[L.template_pos + 1]]
         ELSE [L |-> L, rv |-> END]

_next(L) ==
    Bind(_do_next(L), LAMBDA r :
        IF Truthy(r.L.buf) /\ r.rv # END
        THEN [L |-> [r.L EXCEPT !.buf = Append(@, r.rv)], rv |-> r.rv]
        ELSE r)

\* The second loop of _la: j more calls of _do_next, each result appended to ch_buf.
RECURSIVE _la_fill(_, _, _)
_la_fill(L, j, la) ==
    IF j = 0 THEN [L |-> L, rv |-> la]
    ELSE Bind(_do_next(L), LAMBDA r :
         _la_fill([r.L EXCEPT !.ch_buf = Append(@, r.rv)], j - 1, r.rv))

_la(L, k) ==
    IF k <= Len(L.ch_buf) THEN [L |-> L, rv |-> L.ch_buf[k]]
    ELSE _la_fill(L, k - Len(L.ch_buf), END)

RECURSIVE _clear_la(_)
_clear_la(L) ==
    IF L.ch_buf # <<>> THEN _clear_la(_next(L).L) ELSE L

_start_buf(L, buf_token, ch) ==
    IF buf_token \notin L.ignore_tokens
    THEN [L EXCEPT !.buf = IF ch # NOCHAR THEN <<ch>> ELSE <<>>]
    ELSE L

_clear_buf(L) ==
    [L |-> [L EXCEPT !.buf = NONE], rv |-> IF Truthy(L.buf) THEN L.buf ELSE <<>>]

(***************************************************************************)
(* Numeric conversions: Python's int(value, radix) and float(value) on the *)
(* texts _do_num can collect (an optional sign, digits, one of the prefixes*)
(* 0x 0o 0b, a point, an exponent letter).                                 *)
(***************************************************************************)
DigitVal(ch) ==
    IF ord("0") <= ord(ch) /\ ord(ch) <= ord("9") THEN ord(ch) - ord("0")
    ELSE IF ord("a") <= ord(ch) /\ ord(ch) <= ord("z") THEN ord(ch) - ord("a") + 10
    ELSE IF ord("A") <= ord(ch) /\ ord(ch) <= ord("Z") THEN ord(ch) - ord("A") + 10
    ELSE 99

AllDigits(s, radix) == s # <<>> /\ \A i \in 1..Len(s) : DigitVal(s[i]) < radix

RECURSIVE DigitsValue(_, _)
DigitsValue(s, radix) ==
    IF s = <<>> THEN 0
    ELSE DigitsValue(SubSeq(s, 1, Len(s) - 1), radix) * radix + DigitVal(s[Len(s)])

HasSign(s) == s # <<>> /\ s[1] \in {"+", "-"}
Unsigned(s) == IF HasSign(s) THEN Tail(s) ELSE s
Signed(s, n) == IF HasSign(s) /\ s[1] = "-" THEN 0 - n ELSE n

RadixPrefix(radix) ==
    IF radix = 16 THEN {"x", "X"} ELSE IF radix = 8 THEN {"o", "O"}
    ELSE IF radix = 2 THEN {"b", "B"} ELSE {}

\* int(value, radix)
py_int(value, radix) ==
    Bind(Unsigned(value), LAMBDA u :
    Bind(IF Len(u) >= 2 /\ u[1] = "0" /\ u[2] \in RadixPrefix(radix)
         THEN SubSeq(u, 3, Len(u)) ELSE u, LAMBDA d :
       IF AllDigits(d, radix)
       THEN [rv |-> IntVal(Signed(value, DigitsValue(d, radix))), exc |-> NoExc]
       ELSE [rv |-> NoneVal, exc |-> [type |-> "ValueError", message |-> "invalid literal for int()", value |-> value]]))


RECURSIVE Normalize(_, _)
Normalize(mant, exp) ==
    IF mant = 0 THEN FloatVal(0, 0)
    ELSE IF mant % 10 = 0 THEN Normalize(mant \div 10, exp + 1)
    ELSE FloatVal(mant, exp)

FirstIndex(s, set) ==
    IF \E i \in 1..Len(s) : s[i] \in set
    THEN CHOOSE i \in 1..Len(s) : s[i] \in set /\ \A j \in 1..(i - 1) : s[j] \notin set
    ELSE 0

\* float(value): the mantissa needs a digit, an exponent letter needs digits after it.
py_float(value) ==
    Bind(Unsigned(value), LAMBDA u :
    Bind(FirstIndex(u, {"e", "E"}), LAMBDA e :
    Bind(IF e = 0 THEN u ELSE SubSeq(u, 1, e - 1), LAMBDA m :
    Bind(IF e = 0 THEN <<>> ELSE SubSeq(u, e + 1, Len(u)), LAMBDA x :
    Bind(FirstIndex(m, {"."}), LAMBDA p :
    Bind(IF p = 0 THEN m ELSE SubSeq(m, 1, p - 1), LAMBDA ip :
    Bind(IF p = 0 THEN <<>> ELSE SubSeq(m, p + 1, Len(m)), LAMBDA fp :
       IF /\ ip \o fp # <<>>
          /\ AllDigits(ip \o fp, 10)
          /\ (e # 0 => AllDigits(x, 10))
       THEN [rv |-> Normalize(Signed(value, DigitsValue(ip \o fp, 10)),
                              (IF e = 0 THEN 0 ELSE DigitsValue(x, 10)) - Len(fp)),
             exc |-> NoExc]
       ELSE [rv |-> NoneVal, exc |-> [type |-> "ValueError", message |-> "could not convert string to float", value |-> value]])))))))

(***************************************************************************)
(* The sub-lexers.  Each returns [L, tok, exc].                            *)
(***************************************************************************)
Ret(L, tok) == [L |-> L, tok |-> tok, exc |-> NoExc]
Raise(L, exc) == [L |-> L, tok |-> NoTok, exc |-> exc]

\* `while i < len(match_token): if self._la(i) != match_token[i]: break ... else:`
\* the delimiter probe of _next_token, _do_statement and _do_comment.
RECURSIVE Probe(_, _, _)
Probe(L, match_token, i) ==
    IF i >= Len(match_token) THEN [L |-> L, matched |-> TRUE]
    ELSE Bind(_la(L, i), LAMBDA r :
         IF r.rv # match_token[i + 1] THEN [L |-> r.L, matched |-> FALSE]
         ELSE Probe(r.L, match_token, i + 1))

\* `while True: la = self._la(); if not is_digit(la, radix): break; self._next()`
RECURSIVE DigitLoop(_, _)
DigitLoop(L, radix) ==
    Bind(_la(L, 1), LAMBDA la :
    Bind(is_digit(la.rv, radix), LAMBDA d :
       IF d.exc # NoExc THEN [L |-> la.L, exc |-> d.exc]
       ELSE IF ~d.rv THEN [L |-> la.L, exc |-> NoExc]
       ELSE DigitLoop(_next(la.L).L, radix)))

\* `value = self._clear_buf(); return Token(NUM_LIT, value, start_pos, num_conv(value))`
\* with num_conv float, or int in the given radix
NumToken(L, start_pos, is_float, radix) ==
    Bind(_clear_buf(L), LAMBDA c :
    Bind(IF is_float THEN py_float(c.rv) ELSE py_int(c.rv, radix), LAMBDA v :
       IF v.exc # NoExc THEN Raise(c.L, v.exc)
       ELSE Ret(c.L, Token("NUM_LIT", c.rv, start_pos, v.rv))))

\* lines 468-514 of _do_num: radix prefix, digits, fraction, exponent.
_do_num_body(L, start_pos, ch) ==
    Bind(IF ch = "0" THEN _la(L, 1) ELSE [L |-> L, rv |-> END], LAMBDA la0 :
    Bind(IF ch = "0" /\ la0.rv \in {"x", "X"} THEN 16
         ELSE IF ch = "0" /\ la0.rv \in {"b", "B"} THEN 2
         ELSE IF ch = "0" /\ la0.rv \in {"o", "O"} THEN 8
         ELSE 10, LAMBDA radix :
    Bind(DigitLoop(IF radix # 10 THEN _next(la0.L).L ELSE la0.L, radix), LAMBDA d1 :
       IF d1.exc # NoExc THEN Raise(d1.L, d1.exc)
       ELSE IF radix # 10 THEN NumToken(d1.L, start_pos, FALSE, radix)
       ELSE Bind(_la(d1.L, 1), LAMBDA la1 :
            Bind(IF la1.rv = "." THEN DigitLoop(_next(la1.L).L, 10)
                 ELSE [L |-> la1.L, exc |-> NoExc], LAMBDA d2 :
            Bind(_la(d2.L, 1), LAMBDA la2 :
            Bind(IF la2.rv \in {"e", "E"} THEN DigitLoop(_next(la2.L).L, 10)
                 ELSE [L |-> la2.L, exc |-> NoExc], LAMBDA d3 :
               NumToken(d3.L, start_pos, la1.rv = "." \/ la2.rv \in {"e", "E"}, 10))))))))

_do_num(L, start_pos, ch0) ==
    Bind(_start_buf(L, "NUM_LIT", ch0), LAMBDA L0 :
    Bind(IF ch0 \in {"-", "+"} THEN _next(L0) ELSE [L |-> L0, rv |-> ch0], LAMBDA s :
       IF s.rv = END THEN Ret(s.L, Token("EOF", <<>>, s.L.template_pos, NoneVal))
       ELSE IF s.rv = "."
       THEN Bind(DigitLoop(s.L, 10), LAMBDA d : NumToken(d.L, start_pos, TRUE, 10))
       ELSE _do_num_body(s.L, start_pos, s.rv)))

\* `ch == '\n' | '\r'` (line 381) applies | to two str operands: TypeError.
\* It is evaluated for every escape character other than n and r, so the
\* branches of lines 383-447 are never reached.
StrOrTypeError == [type |-> "TypeError", message |-> "unsupported operand type(s) for |: 'str' and 'str'"]

RECURSIVE _do_str_loop(_, _, _, _)
_do_str_loop(L, start_pos, opening_qchar, value_buf) ==
    Bind(_next(L), LAMBDA r :
       IF r.rv = END THEN Ret(r.L, Token("EOF", <<>>, r.L.template_pos, NoneVal))
       ELSE IF r.rv = opening_qchar
       THEN Bind(_clear_buf(r.L), LAMBDA c :
            Ret(c.L, Token("STR_LIT", c.rv, start_pos, StrVal(value_buf))))
       ELSE IF r.rv = "\\"
       THEN Bind(_next(r.L), LAMBDA e :
            IF e.rv = END THEN Ret(e.L, Token("EOF", <<>>, e.L.template_pos, NoneVal))
            ELSE IF e.rv \in {"n", "r"}
            THEN _do_str_loop(e.L, start_pos, opening_qchar,
                              Append(value_buf, IF e.rv = "n" THEN "\n" ELSE "\r"))
            ELSE Raise(e.L, StrOrTypeError))
       ELSE _do_str_loop(r.L, start_pos, opening_qchar, Append(value_buf, r.rv)))

_do_str(L, start_pos, ch) ==
    _do_str_loop(_start_buf(L, "STR_LIT", ch), start_pos, ch, <<>>)

EndsWithLineBreak(value) == value # <<>> /\ value[Len(value)] \in {"\n", "\r"}

\* the whitespace run of _do_statement (lines 304-312)
RECURSIVE WsLoop(_, _, _, _)
WsLoop(L, start_pos, end_tok_type, single_line) ==
    Bind(_la(L, 1), LAMBDA la :
       IF ~is_ws(la.rv)
       THEN Bind(_clear_buf(la.L), LAMBDA c :
            Ret(c.L, Token(IF single_line /\ EndsWithLineBreak(c.rv) THEN end_tok_type ELSE "WS",
                           c.rv, start_pos, NoneVal)))
       ELSE WsLoop(_next(la.L).L, start_pos, end_tok_type, single_line))

\* the identifier run of _do_statement (lines 315-318)
RECURSIVE NameLoop(_, _)
NameLoop(L, start_pos) ==
    Bind(_la(L, 1), LAMBDA la :
       IF ~is_alphanum(la.rv)
       THEN Bind(_clear_buf(la.L), LAMBDA c :
            Ret(c.L, Token("NAME_OR_KEYWORD", c.rv, start_pos, NoneVal)))
       ELSE NameLoop(_next(la.L).L, start_pos))

SingleCharKind(ch) ==
    CASE ch = "(" -> "L_PAREN" [] ch = ")" -> "R_PAREN"
      [] ch = "[" -> "L_BRACKET" [] ch = "]" -> "R_BRACKET"
      [] ch = "{" -> "L_BRACE" [] ch = "}" -> "R_BRACE"
      [] ch = "," -> "COMMA" [] ch = "|" -> "PIPE" [] ch = ":" -> "COLON"

\* lines 259-320 of _do_statement: the regular lexicon
Lexicon(L, start_pos, ch, end_tok_type, single_line) ==
    IF ch \in {"(", ")", "[", "]", "{", "}", ",", "|", ":"}
    THEN Ret(L, Token(SingleCharKind(ch), <<ch>>, start_pos, NoneVal))
    ELSE IF ch = "."
    THEN Bind(_la(L, 1), LAMBDA la :
         IF is_digit(la.rv, 10).rv THEN _do_num(la.L, start_pos, ch)
         ELSE Ret(la.L, Token("DOT", <<ch>>, start_pos, NoneVal)))
    ELSE IF ch \in {"+", "-"}
    THEN Bind(_la(L, 1), LAMBDA la :
         \* `return _do_num(start_pos, ch)`: no module-level name _do_num exists
         IF is_digit(la.rv, 10).rv THEN Raise(la.L, [type |-> "NameError", name |-> "_do_num"])
         ELSE Ret(la.L, Token("MATH_OP_OR_STAR_ARGS", <<ch>>, start_pos, NoneVal)))
    ELSE IF ch \in {"*", "/"}
    THEN Bind(_la(L, 1), LAMBDA la :
         IF la.rv = ch
         THEN Bind(_next(la.L), LAMBDA n :
              Ret(n.L, Token("MATH_OP_OR_STAR_ARGS", <<ch, n.rv>>, start_pos, NoneVal)))
         ELSE Ret(la.L, Token("MATH_OP_OR_STAR_ARGS", <<ch>>, start_pos, NoneVal)))
    ELSE IF ch \in {">", "<"}
    THEN Bind(_la(L, 1), LAMBDA la :
         IF la.rv = "="
         THEN Bind(_next(la.L), LAMBDA n :
              Ret(n.L, Token("COMPARE_OP", <<ch, n.rv>>, start_pos, NoneVal)))
         ELSE Ret(la.L, Token("MATH_OP_OR_STAR_ARGS", <<ch>>, start_pos, NoneVal)))
    ELSE IF ch = "="
    THEN Bind(_la(L, 1), LAMBDA la :
         IF la.rv = "="
         THEN Ret(_next(la.L).L, Token("COMPARE_OP", <<"=", "=">>, start_pos, NoneVal))
         ELSE Ret(la.L, Token("EQ", <<"=">>, start_pos, NoneVal)))
    ELSE IF ch \in {"\"", "'"} THEN _do_str(L, start_pos, ch)
    ELSE IF is_digit(ch, 10).rv THEN _do_num(L, start_pos, ch)
    ELSE IF is_ws(ch) THEN WsLoop(_start_buf(L, "WS", ch), start_pos, end_tok_type, single_line)
    ELSE IF is_alpha(ch) THEN NameLoop(_start_buf(L, "NAME_OR_KEYWORD", ch), start_pos)
    ELSE Raise(L, [type |-> "InvalidSyntaxError", message |-> <<"Invalid token: ", ch>>, position |-> start_pos])

\* start_pos taken from the length of the peek buffer instead of the position
statement_start_pos_peeked(L) == Len(L.ch_buf)

\* `start_pos = self.template_pos` (line 240)
statement_start_pos(L) == L.template_pos

_do_statement(L, terminator, end_tok_type, single_line) ==
    Bind(statement_start_pos(L), LAMBDA start_pos :
    Bind(_next(L), LAMBDA r :
       IF r.rv = END THEN Ret(r.L, Token("EOF", <<>>, r.L.template_pos, NoneVal))
       ELSE Bind(IF Truthy(terminator) /\ r.rv = terminator[1]
                 THEN Probe(r.L, terminator, 1)
                 ELSE [L |-> r.L, matched |-> FALSE], LAMBDA p :
            IF p.matched
            THEN Bind(_clear_buf(_clear_la(p.L)), LAMBDA c :
                 Ret(c.L, Token(end_tok_type, c.rv, start_pos, NoneVal)))
            ELSE Lexicon(p.L, start_pos, r.rv, end_tok_type, single_line))))

\* `if rv:` of _do_comment (lines 352-357); rv.tok is the COMMENT_END token
CommentEnd(c, start_pos) ==
    Bind(Token("COMMENT_END", c.rv, start_pos, NoneVal), LAMBDA rv :
       IF Truthy(c.L.buf)
       THEN Bind(_clear_buf([c.L EXCEPT !.la_buf = Append(@, rv)]), LAMBDA d :
            Ret(d.L, Token("COMMENT_DATA", d.rv, start_pos, NoneVal)))
       ELSE Ret(c.L, rv))

RECURSIVE _do_comment_loop(_, _, _)
_do_comment_loop(L, start_pos, single_line) ==
    Bind(_next(L), LAMBDA r :
       IF r.rv = END THEN Ret(r.L, Token("EOF", <<>>, r.L.template_pos, NoneVal))
       ELSE IF single_line
       THEN IF r.rv = "\r"
            THEN Bind(_la(r.L, 1), LAMBDA la :
                 CommentEnd(_clear_buf(IF la.rv = "\n" THEN _next(la.L).L ELSE la.L), start_pos))
            ELSE IF r.rv = "\n" THEN CommentEnd(_clear_buf(r.L), start_pos)
            ELSE _do_comment_loop(r.L, start_pos, single_line)
       ELSE IF r.rv = L.comment_end[1]
       THEN Bind(Probe(r.L, L.comment_end, 1), LAMBDA p :
            IF p.matched THEN CommentEnd(_clear_buf(_clear_la(p.L)), start_pos)
            ELSE _do_comment_loop(p.L, start_pos, single_line))
       ELSE _do_comment_loop(r.L, start_pos, single_line))

_do_comment(L, single_line) ==
    _do_comment_loop(_start_buf(L, "COMMENT_DATA", NOCHAR), L.template_pos, single_line)

(***************************************************************************)
(* _next_token: the raw token production, one call.                        *)
(***************************************************************************)
\* the (match_token, tok_type) pairs of the for loop, in its order
Delimiters(L) ==
    << <<L.block_start, "STATEMENT_START">>,
       <<L.inline_start, "INLINE_START">>,
       <<L.comment_start, "COMMENT_START">>,
       <<L.line_statement_prefix, "LINE_STATEMENT_PREFIX">>,
       <<L.line_comment_prefix, "LINE_COMMENT_PREFIX">> >>

\* `match tok_type:` with every delimiter entering the block state
StateOf_block(tok_type) == 1

\* `match tok_type:` (lines 187-198)
StateOf(tok_type) ==
    CASE tok_type = "STATEMENT_START" -> 1
      [] tok_type = "COMMENT_START" -> 2
      [] tok_type = "INLINE_START" -> 5
      [] tok_type = "LINE_STATEMENT_PREFIX" -> 3
      [] tok_type = "LINE_COMMENT_PREFIX" -> 4

\* the for loop over the delimiters for one character ch (lines 169-185)
RECURSIVE MatchDelimiter(_, _, _)
MatchDelimiter(L, ch, idx) ==
    IF idx > Len(Delimiters(L)) THEN [L |-> L, matched |-> FALSE, tok |-> NoTok]
    ELSE Bind(Delimiters(L)[idx][1], LAMBDA match_token :
         IF ~Truthy(match_token) \/ ch # match_token[1]
         THEN MatchDelimiter(L, ch, idx + 1)
         ELSE Bind(Probe(L, match_token, 1), LAMBDA p :
              IF p.matched
              THEN [L |-> _clear_la(p.L), matched |-> TRUE,
                    tok |-> Token(Delimiters(L)[idx][2], match_token, L.template_pos, NoneVal)]
              ELSE MatchDelimiter(p.L, ch, idx + 1)))

\* template text that forgets its literal at the end of the input
RECURSIVE TemplateText_loop_dropping(_, _, _)
TemplateText_loop_dropping(L, buf, start_pos) ==
    Bind(_next(L), LAMBDA r :
       IF r.rv = END
       THEN Ret(r.L, Token("EOF", <<>>, r.L.template_pos, NoneVal))
       ELSE Bind(MatchDelimiter(r.L, r.rv, 1), LAMBDA m :
            IF m.matched
            THEN Bind([m.L EXCEPT !.state = StateOf(m.tok.tok_type)], LAMBDA L1 :
                 IF buf # <<>>
                 THEN Ret([L1 EXCEPT !.buf_tok = m.tok, !.buf_state = L1.state, !.state = 6],
                          Token("TEMPLATE_DATA", buf, start_pos, NoneVal))
                 ELSE Ret(L1, m.tok))
            ELSE TemplateText_loop_dropping(m.L, Append(buf, r.rv), start_pos)))

\* state 0, template text (lines 153-209)
RECURSIVE TemplateText_loop(_, _, _)
TemplateText_loop(L, buf, start_pos) ==
    Bind(_next(L), LAMBDA r :
       IF r.rv = END
       THEN IF buf # <<>> THEN Ret(r.L, Token("TEMPLATE_DATA", buf, start_pos, NoneVal))
            ELSE Ret(r.L, Token("EOF", <<>>, r.L.template_pos, NoneVal))
       ELSE Bind(MatchDelimiter(r.L, r.rv, 1), LAMBDA m :
            IF m.matched
            THEN Bind([m.L EXCEPT !.state = StateOf(m.tok.tok_type)], LAMBDA L1 :
                 IF buf # <<>>
                 THEN Ret([L1 EXCEPT !.buf_tok = m.tok, !.buf_state = L1.state, !.state = 6],
                          Token("TEMPLATE_DATA", buf, start_pos, NoneVal))
                 ELSE Ret(L1, m.tok))
            ELSE TemplateText_loop(m.L, Append(buf, r.rv), start_pos)))

_next_token(L) ==
    IF L.state = 0 THEN TemplateText_loop(L, <<>>, L.template_pos)
    ELSE IF L.state \in {1, 3, 5}
    THEN Bind(IF L.state = 5 THEN "INLINE_END" ELSE "STATEMENT_END", LAMBDA end_tok_type :
         Bind(_do_statement(L, IF L.state = 1 THEN L.block_end
                               ELSE IF L.state = 3 THEN NONE ELSE L.inline_end,
                            end_tok_type, L.state = 3), LAMBDA rv :
            IF rv.exc = NoExc /\ rv.tok.tok_type = end_tok_type
            THEN [rv EXCEPT !.L.state = 0] ELSE rv))
    ELSE IF L.state \in {2, 4}
    THEN Bind(_do_comment(L, L.state = 4), LAMBDA rv :
         IF rv.tok.tok_type = "COMMENT_END" THEN [rv EXCEPT !.L.state = 0] ELSE rv)
    ELSE Ret([L EXCEPT !.buf_tok = NoTok, !.state = L.buf_state, !.buf_state = -1], L.buf_tok)

(***************************************************************************)
(* The client interface: next_token and la(k), which skip ignored kinds.   *)
(***************************************************************************)
\* next_token without its look at la_buf (lines 117-120)
RECURSIVE next_token_past_la(_)
next_token_past_la(L) ==
    Bind(_next_token(L), LAMBDA r :
         IF r.exc # NoExc THEN r
         ELSE IF r.tok.tok_type \in L.ignore_tokens THEN next_token_past_la(r.L)
         ELSE r)

RECURSIVE next_token(_)
next_token(L) ==
    IF L.la_buf # <<>> THEN Ret([L EXCEPT !.la_buf = Tail(@)], Head(L.la_buf))
    ELSE Bind(_next_token(L), LAMBDA r :
         IF r.exc # NoExc THEN r
         ELSE IF r.tok.tok_type \in L.ignore_tokens THEN next_token(r.L)
         ELSE r)

\* the loop of la without its `continue`: an ignored token fills a slot too
RECURSIVE la_fill_counting_ignored(_, _, _)
la_fill_counting_ignored(L, j, tok) ==
    IF j = 0 THEN Ret(L, tok)
    ELSE Bind(_next_token(L), LAMBDA r :
         IF r.exc # NoExc THEN r
         ELSE la_fill_counting_ignored([r.L EXCEPT !.la_buf = Append(@, r.tok)], j - 1, r.tok))

\* the while loop of la (lines 138-143): j more tokens that are not ignored
RECURSIVE la_fill(_, _, _)
la_fill(L, j, tok) ==
    IF j = 0 THEN Ret(L, tok)
    ELSE Bind(_next_token(L), LAMBDA r :
         IF r.exc # NoExc THEN r
         ELSE IF r.tok.tok_type \in L.ignore_tokens THEN la_fill(r.L, j, tok)
         ELSE la_fill([r.L EXCEPT !.la_buf = Append(@, r.tok)], j - 1, r.tok))

la(L, k) ==
    IF k <= Len(L.la_buf) THEN Ret(L, L.la_buf[k])
    ELSE la_fill(L, k - Len(L.la_buf), NoTok)

(***************************************************************************)
(* The document model and the parser.                                      *)
(***************************************************************************)
TemplateText(text) == [kind |-> "TemplateText", text |-> text]
TemplateInline(tokens) == [kind |-> "TemplateInline", tokens |-> tokens]
TemplateStatement(l_ws_control, command, tokens, r_ws_control) ==
    [kind |-> "TemplateStatement", l_ws_control |-> l_ws_control, command |-> command,
     tokens |-> tokens, r_ws_control |-> r_ws_control]

\* Token.__str__ (lines 86-87): `"; " + self.value` when value != text; the
\* value of a NUM_LIT is an int or a float, never equal to the text, and
\* str + number raises TypeError.
Token__str__(token) ==
    IF token.value # StrVal(token.text) /\ token.value.type # "str"
    THEN [type |-> "TypeError", message |-> "can only concatenate str to str", value |-> token.value]
    ELSE NoExc

\* UnexpectedTokenError(token, *expected): its message formats the token with
\* Token.__str__, so the constructor raises what __str__ raises.
UnexpectedTokenError(token, expected) ==
    IF Token__str__(token) # NoExc THEN Token__str__(token)
    ELSE [type |-> "UnexpectedTokenError", token |-> token, expected |-> expected]

\* check_tok: the exception it raises, NoExc when it returns tok
check_tok(tok, expected) ==
    IF tok.tok_type \notin expected THEN UnexpectedTokenError(tok, expected) ELSE NoExc

\* `tok.value in ('+', '-')`
IsControlValue(value) == value.type = "str" /\ value.s \in {<<"+">>, <<"-">>}

NoFrame == [is_block |-> FALSE, l_ws_control |-> NONE, command |-> NONE,
            tokens |-> <<>>, r_ws_control |-> NONE]

\* statement_parse: the lexer it builds for text
StatementParseLexer(text) ==
    JinjaStatementLexer(text, <<"{", "%">>, <<"%", "}">>, <<"{", "{">>, <<"}", "}">>,
                        <<"{", "#">>, <<"#", "}">>, NONE, NONE,
                        {"WS", "COMMENT_START", "COMMENT_DATA", "COMMENT_END", "LINE_COMMENT_PREFIX"})

Raised(L, exc) ==
    /\ pc' = "raised"
    /\ error' = exc
    /\ lexer' = L
    /\ UNCHANGED <<elements, frame>>

\* one iteration of the loop of document() up to the dispatch
Document ==
    /\ pc = "document"
    /\ UNCHANGED history
    /\ \E r \in {la(lexer, 1)} :
       IF r.exc # NoExc THEN Raised(r.L, r.exc)
       ELSE IF r.tok.tok_type = "TEMPLATE_DATA"
       THEN \E n \in {next_token(r.L)} :
            /\ lexer' = n.L
            /\ elements' = Append(elements, TemplateText(n.tok.value.s))
            /\ UNCHANGED <<pc, frame, error>>
       ELSE IF r.tok.tok_type \in {"STATEMENT_START", "LINE_STATEMENT_PREFIX"}
       THEN /\ lexer' = r.L
            /\ pc' = "statement"
            /\ UNCHANGED <<elements, frame, error>>
       ELSE IF r.tok.tok_type = "INLINE_START"
       THEN /\ lexer' = r.L
            /\ pc' = "inline"
            /\ UNCHANGED <<elements, frame, error>>
       ELSE IF r.tok.tok_type = "EOF"
       THEN /\ lexer' = r.L
            /\ pc' = "returned"
            /\ UNCHANGED <<elements, frame, error>>
       ELSE Raised(r.L, UnexpectedTokenError(r.tok,
                {"TEMPLATE_DATA", "STATEMENT_START", "INLINE_START", "LINE_STATEMENT_PREFIX"}))

\* statement(), lines 617-627: opening delimiter, left marker, command
StatementOpen ==
    /\ pc = "statement"
    /\ UNCHANGED history
    /\ \E t \in {next_token(lexer)} :
       \E e1 \in {IF t.exc # NoExc THEN t.exc
                  ELSE check_tok(t.tok, {"STATEMENT_START", "LINE_STATEMENT_PREFIX"})} :
       IF e1 # NoExc THEN Raised(t.L, e1)
       ELSE \E is_block \in {t.tok.tok_type = "STATEMENT_START"} :
            \E l \in {IF is_block THEN la(t.L, 1) ELSE Ret(t.L, NoTok)} :
            IF l.exc # NoExc THEN Raised(l.L, l.exc)
            ELSE \E has_l \in {is_block /\ IsControlValue(l.tok.value)} :
                 \E m \in {IF has_l THEN next_token(l.L) ELSE l} :
                 \E c \in {next_token(m.L)} :
                 \E e2 \in {IF c.exc # NoExc THEN c.exc ELSE check_tok(c.tok, {"NAME_OR_KEYWORD"})} :
                 IF e2 # NoExc THEN Raised(c.L, e2)
                 ELSE /\ lexer' = c.L
                      /\ frame' = [is_block |-> is_block,
                                   l_ws_control |-> IF has_l THEN m.tok.value.s ELSE NONE,
                                   command |-> c.tok.value.s,
                                   tokens |-> <<>>, r_ws_control |-> NONE]
                      /\ pc' = "statement_loop"
                      /\ UNCHANGED <<elements, error>>

\* statement(), lines 629-639: one iteration of the token loop
StatementToken ==
    /\ pc = "statement_loop"
    /\ UNCHANGED history
    /\ Len(frame.tokens) < MaxTokens
    /\ \E t \in {next_token(lexer)} :
       IF t.exc # NoExc THEN Raised(t.L, t.exc)
       ELSE IF t.tok.tok_type = "STATEMENT_END"
       THEN /\ lexer' = t.L
            /\ elements' = Append(elements, TemplateStatement(frame.l_ws_control, frame.command,
                                                              frame.tokens, frame.r_ws_control))
            /\ frame' = NoFrame
            /\ pc' = "document"
            /\ UNCHANGED error
       ELSE IF frame.is_block /\ IsControlValue(t.tok.value)
       THEN \E l \in {la(t.L, 1)} :
            IF l.exc # NoExc THEN Raised(l.L, l.exc)
            ELSE /\ lexer' = l.L
                 /\ frame' = IF l.tok.tok_type = "STATEMENT_END"
                             THEN [frame EXCEPT !.r_ws_control = t.tok.value.s]
                             ELSE [frame EXCEPT !.tokens = Append(@, t.tok)]
                 /\ UNCHANGED <<pc, elements, error>>
       ELSE /\ lexer' = t.L
            /\ frame' = [frame EXCEPT !.tokens = Append(@, t.tok)]
            /\ UNCHANGED <<pc, elements, error>>

\* inline(), lines 642-645: the opening delimiter
InlineOpen ==
    /\ pc = "inline"
    /\ UNCHANGED history
    /\ \E t \in {next_token(lexer)} :
       \E e \in {IF t.exc # NoExc THEN t.exc ELSE check_tok(t.tok, {"INLINE_START"})} :
       IF e # NoExc THEN Raised(t.L, e)
       ELSE /\ lexer' = t.L
            /\ frame' = NoFrame
            /\ pc' = "inline_loop"
            /\ UNCHANGED <<elements, error>>

\* inline(), lines 646-652: one iteration of the token loop
InlineToken ==
    /\ pc = "inline_loop"
    /\ UNCHANGED history
    /\ Len(frame.tokens) < MaxTokens
    /\ \E t \in {next_token(lexer)} :
       IF t.exc # NoExc THEN Raised(t.L, t.exc)
       ELSE IF t.tok.tok_type = "INLINE_END"
       THEN /\ lexer' = t.L
            /\ elements' = Append(elements, TemplateInline(frame.tokens))
            /\ frame' = NoFrame
            /\ pc' = "document"
            /\ UNCHANGED error
       ELSE /\ lexer' = t.L
            /\ frame' = [frame EXCEPT !.tokens = Append(@, t.tok)]
            /\ UNCHANGED <<pc, elements, error>>

(***************************************************************************)
(* The source texts statement_parse is applied to.                         *)
(***************************************************************************)
Examples ==
    { <<"{", "%", " ", "i", "f", " ", "x">>,
      <<"{", "%", "-", " ", "s", "e", "t", " ", "y", " ", "=", " ", "1", " ", "-", "%", "}">>,
      <<"{", "%", " ", "i", "f", " ", "x", " ", "%", "}">>,
      <<"H", "e", "l", "l", "o", " ", "{", "{", " ", "n", "a", "m", "e", " ", "}", "}", "!">>,
      <<"{", "{", " ", "\"", "a", "\\", "t", "b", "\\", "x", "4", "1", "\"", " ", "}", "}">>,
      <<"{", "{", " ", "0", "x", "1", "F", " ", "}", "}">>,
      <<"{", "{", " ", "3", ".", "1", "4", " ", "}", "}">>,
      <<"{", "{", " ", "1", "e", "3", " ", "}", "}">>,
      <<"{", "{", " ", "4", "2", " ", "}", "}">>,
      <<"{", "{", " ", "-", "1", " ", "}", "}">>,
      <<"{", "{", " ", "0", "b", "1", "0", "1", " ", "}", "}">>,
      <<"{", "{", " ", "n", "a", "m", "e">>,
      <<"{", "%", " ", "x", " ", "\"", "a", "b", "c">>,
      <<"{", "#", " ", "a", "b", "c">>,
      <<"a", "{", "#", " ", "b", " ", "#", "}", "c">> }

\* every string over the character set A of length at most n
Strings(A, n) == UNION {[1..k -> A] : k \in 0..n}

Alphabet == {"{", "%", "}", "#", "x", " "}
TokenAlphabet == {"x", "1", " ", "-", "="}
PlainAlphabet == {"x", " ", "=", "-", "\""}
StrAlphabet == {"a", "\\", "t", "n", "\""}
NumAlphabet == {"0", "1", "x", "b", ".", "e", "-"}

\* free text: no directive, or short and possibly unterminated directives
ShortTexts == Strings(Alphabet, MaxLen)

\* literal text, an inline expression, literal text
InlineTexts ==
    {<<"H", "i", " ", "{", "{">> \o b \o <<"}", "}", "!">> : b \in Strings(TokenAlphabet, MaxBody)}

\* a block statement with both whitespace-control markers
MarkedStatements ==
    {<<"{", "%", m>> \o <<"s", "e", "t">> \o b \o <<m, "%", "}">> :
        m \in {"+", "-"}, b \in Strings(TokenAlphabet, MaxBody)}

\* a block statement without markers
PlainStatements ==
    {<<"{", "%", " ", "i", "f">> \o b \o <<"%", "}">> : b \in Strings(PlainAlphabet, MaxBody)}

\* two directives in a row
DirectivePairs ==
    {<<"{", "{">> \o b \o <<"}", "}", "{", "%", "c", " ", "d", "%", "}">> :
        b \in Strings(TokenAlphabet, MaxBody)}
    \cup {<<"{", "%", "c">> \o b \o <<"%", "}", "{", "{", "y", "}", "}">> :
        b \in Strings(TokenAlphabet, MaxBody)}

\* an inline expression holding one string literal
StringLiterals ==
    {<<"{", "{", "\"">> \o b \o <<"\"", "}", "}">> : b \in Strings(StrAlphabet, MaxStrBody)}

\* an inline expression holding numeric text
NumericLiterals ==
    {<<"{", "{", " ">> \o b \o <<" ", "}", "}">> : b \in Strings(NumAlphabet, MaxStrBody)}

\* one block statement whose body is free: any token may stand in command position
CommandAlphabet == {"x", "1", " ", "-", "=", "\"", "~"}
StatementTexts ==
    {<<"{", "%">> \o b \o <<"%", "}">> : b \in Strings(CommandAlphabet, MaxBody)}

\* literal text around and between two directives, comments among them
SampleDirectives ==
    { <<>>,
      <<"{", "#", "c", "#", "}">>, <<"{", "#", "#", "}">>, <<"{", "#", " ", "c">>,
      <<"{", "%", "c", " ", "d", "%", "}">>, <<"{", "{", "y", "}", "}">>,
      <<"{", "#", "{", "{", "#", "}">> }
SurroundedTexts ==
    {a \o d \o b \o e \o c :
        a \in {<<>>, <<"x">>}, d \in SampleDirectives, b \in {<<>>, <<"x">>, <<"{">>},
        e \in SampleDirectives, c \in {<<>>, <<"x", "}">>}}

\* an inline expression that opens with a sign
SignedTexts ==
    {<<"{", "{", s>> \o b \o <<"}", "}">> : s \in {"+", "-"}, b \in Strings({"0", "1", "x", " "}, 2)}

\* numeric literals with a radix prefix, each as an inline expression
RadixLiterals ==
    { <<"0", "b", "1", "0", "1">>, <<"0", "B", "1", "0", "1">>,
      <<"0", "o", "1", "7">>, <<"0", "O", "1", "7">>,
      <<"0", "x", "1", "F">>, <<"0", "X", "1", "F">>, <<"0", "x", "f", "f">>,
      <<"0", "b", "0">>, <<"0", "o", "7", "7">> }
RadixTexts == {<<"{", "{">> \o n \o <<"}", "}">> : n \in RadixLiterals}

Inputs ==
    Examples \cup ShortTexts \cup InlineTexts \cup MarkedStatements \cup PlainStatements
    \cup DirectivePairs \cup StringLiterals \cup NumericLiterals \cup StatementTexts \cup SurroundedTexts \cup SignedTexts \cup RadixTexts

Init ==
    /\ lexer \in {StatementParseLexer(text) : text \in Inputs}
    /\ pc = "document"
    /\ elements = <<>>
    /\ frame = NoFrame
    /\ error = NoExc
    /\ history = <<>>

Next == Document \/ StatementOpen \/ StatementToken \/ InlineOpen \/ InlineToken

Spec == Init /\ [][Next]_vars

(***************************************************************************)
(* A client of one lexer: any interleaving of next_token() and la(k) on a  *)
(* lexer built with some ignore set.  history logs what each call returned.*)
(* An ignore set holding EOF is left out: next_token() never returns then. *)
(***************************************************************************)
IgnoreSets ==
    { {},
      {"WS"},
      {"WS", "COMMENT_START", "COMMENT_DATA", "COMMENT_END", "LINE_COMMENT_PREFIX"},
      {"TEMPLATE_DATA", "NAME_OR_KEYWORD"},
      {"STATEMENT_START", "STATEMENT_END", "COMMENT_DATA"} }

LexerTexts ==
    { <<"a", "{", "%", " ", "i", "f", " ", "x", " ", "%", "}", "b">>,
      <<"{", "#", " ", "c", " ", "#", "}", "{", "{", " ", "y", " ", "}", "}">>,
      <<"x", "{", "#", "c", "#", "}", "{", "%", "c", " ", "d", "%", "}", "y">>,
      <<"{", "%", " ", "x", " ", "=", " ", "1", " ", "%", "}">>,
      <<"{", "{", " ", "a", " ", "b", " ">>,
      <<"{", "%", " ", "x", "~", "%", "}">> }
    \cup {<<"{", "%", "c">> \o b \o <<"%", "}", "t">> : b \in Strings({"x", " ", "="}, 2)}

ClientLexer(text, ignore_tokens) ==
    JinjaStatementLexer(text, <<"{", "%">>, <<"%", "}">>, <<"{", "{">>, <<"}", "}">>,
                        <<"{", "#">>, <<"#", "}">>, NONE, NONE, ignore_tokens)

LexerInit ==
    /\ lexer \in {ClientLexer(text, ignore) : text \in LexerTexts, ignore \in IgnoreSets}
    /\ pc = "client"
    /\ elements = <<>>
    /\ frame = NoFrame
    /\ error = NoExc
    /\ history = <<>>

\* what a call leaves behind: the token it returned, or the exception
Returned(r, op, k) ==
    /\ lexer' = r.L
    /\ UNCHANGED <<elements, frame>>
    /\ IF r.exc # NoExc
       THEN pc' = "raised" /\ error' = r.exc /\ UNCHANGED history
       ELSE history' = Append(history, [op |-> op, k |-> k, tok |-> r.tok]) /\ UNCHANGED <<pc, error>>

ClientNextToken ==
    /\ pc = "client" /\ Len(history) < MaxCalls
    /\ Returned(next_token(lexer), "next_token", 1)

ClientLa ==
    /\ pc = "client" /\ Len(history) < MaxCalls
    /\ \E k \in 1..MaxK : Returned(la(lexer, k), "la", k)

LexerNext == ClientNextToken \/ ClientLa

LexerSpec == LexerInit /\ [][LexerNext]_vars

(***************************************************************************)
(* A session: statement_parse called again and again by one client.  Each  *)
(* call runs the parser's steps to its end; history keeps every finished   *)
(* call's text with what it returned or raised.                            *)
(***************************************************************************)
SessionTexts ==
    { <<"a", "{", "%", " ", "i", "f", " ", "x", " ", "%", "}", "b">>,
      <<"{", "{", " ", "y", " ", "=", " ", "1", " ", "}", "}">>,
      <<"{", "%", "-", " ", "c", " ", "-", "%", "}", "{", "#", "c", "#", "}", "t">>,
      <<"{", "%", " ", "=">>,
      <<"t">> }

\* the lexer of a shared one kept across calls, only its text replaced
NextCallLexer_shared(previous, text) == [previous EXCEPT !.template_text = text]

\* statement_parse builds its lexer from its argument alone (lines 656-658):
\* nothing of the previous call's lexer goes into it
NextCallLexer(previous, text) == StatementParseLexer(text)

SessionInit ==
    /\ lexer \in {StatementParseLexer(text) : text \in SessionTexts}
    /\ pc = "document"
    /\ elements = <<>>
    /\ frame = NoFrame
    /\ error = NoExc
    /\ history = <<>>

\* the running call has ended; the client calls statement_parse(text) again
StatementParseAgain ==
    /\ pc \in {"returned", "raised"}
    /\ Len(history) < MaxCalls
    /\ history' = Append(history, [text |-> lexer.template_text, outcome |-> pc,
                                   elements |-> elements, error |-> error])
    /\ \E text \in SessionTexts : lexer' = NextCallLexer(lexer, text)
    /\ pc' = "document"
    /\ elements' = <<>>
    /\ frame' = NoFrame
    /\ error' = NoExc

SessionNext == Next \/ StatementParseAgain

SessionSpec == SessionInit /\ [][SessionNext]_vars

(***************************************************************************)
(* The character cursor on its own: any interleaving of _next(), _la(k)    *)
(* and _clear_la() on one lexer.  history logs each call with the value it *)
(* returned and the characters it delivered as consumed.                   *)
(***************************************************************************)
CursorTexts ==
    { <<>>, <<"a">>, <<"a", "b">>, <<"a", "b", "c">>, <<"a", "b", "c", "d">>,
      <<"a", "b", "c", "d", "e">> }

CursorInit ==
    /\ lexer \in {ClientLexer(text, {}) : text \in CursorTexts}
    /\ pc = "cursor"
    /\ elements = <<>>
    /\ frame = NoFrame
    /\ error = NoExc
    /\ history = <<>>

CursorDone(L, op, k, rv, consumed) ==
    /\ lexer' = L
    /\ history' = Append(history, [op |-> op, k |-> k, rv |-> rv, consumed |-> consumed])
    /\ UNCHANGED <<pc, elements, frame, error>>

CursorNext ==
    /\ pc = "cursor" /\ Len(history) < MaxCursorCalls
    /\ \E r \in {_next(lexer)} : CursorDone(r.L, "_next", 1, r.rv, <<r.rv>>)

CursorLa ==
    /\ pc = "cursor" /\ Len(history) < MaxCursorCalls
    /\ \E k \in 1..MaxK : \E r \in {_la(lexer, k)} : CursorDone(r.L, "_la", k, r.rv, <<>>)

\* _clear_la: its _next() calls return the peek buffer, front first
CursorClearLa ==
    /\ pc = "cursor" /\ Len(history) < MaxCursorCalls
    /\ CursorDone(_clear_la(lexer), "_clear_la", 1, NOCHAR, lexer.ch_buf)

CursorStep == CursorNext \/ CursorLa \/ CursorClearLa

CursorSpec == CursorInit /\ [][CursorStep]_vars

(***************************************************************************)
(* The raw token production on its own: _next_token() called again and     *)
(* again on lexers with several delimiter configurations, line prefixes    *)
(* among them.  history logs each token with the state and position the    *)
(* lexer was left in.                                                      *)
(***************************************************************************)
\* block/inline/comment delimiters of statement_parse, with and without line
\* prefixes, a configuration with a block delimiter of three characters, and
\* one that ignores whitespace tokens
RawLexers(text) ==
    { JinjaStatementLexer(text, <<"{", "%">>, <<"%", "}">>, <<"{", "{">>, <<"}", "}">>,
                          <<"{", "#">>, <<"#", "}">>, NONE, NONE, {}),
      JinjaStatementLexer(text, <<"{", "%">>, <<"%", "}">>, <<"{", "{">>, <<"}", "}">>,
                          <<"{", "#">>, <<"#", "}">>, <<"%", "%">>, <<"#", "#">>, {}),
      JinjaStatementLexer(text, <<"<", "%", "=">>, <<"=", "%", ">">>, <<"{", "{">>, <<"}", "}">>,
                          <<"{", "#">>, <<"#", "}">>, <<"%">>, <<"#">>, {}),
      JinjaStatementLexer(text, <<"{", "%">>, <<"%", "}">>, <<"{", "{">>, <<"}", "}">>,
                          <<"{", "#">>, <<"#", "}">>, <<"%">>, <<"#">>, {"WS"}) }

\* literal text, an opening delimiter, what follows it
RawTexts ==
    {lit \o d \o rest :
        lit \in {<<>>, <<"a">>, <<"a", " ", "b">>},
        d \in {<<"{", "%">>, <<"{", "{">>, <<"{", "#">>, <<"%", "%">>, <<"#", "#">>,
               <<"%">>, <<"#">>, <<"<", "%", "=">>, <<"{">>},
        rest \in {<<>>, <<"x">>, <<" ", "x", " ", "%", "}">>, <<"c", "\n", "t">>,
                  <<"c", " ", "#", "}", "t">>, <<"#", "}", "t">>, <<"\n", "t">>,
                  <<"c", "\n", " ", "t">>}}

RawInit ==
    /\ lexer \in UNION {RawLexers(text) : text \in RawTexts}
    /\ pc = "raw"
    /\ elements = <<>>
    /\ frame = NoFrame
    /\ error = NoExc
    /\ history = <<>>

RawNextToken ==
    /\ pc = "raw" /\ Len(history) < MaxRawCalls
    /\ \E r \in {_next_token(lexer)} :
       /\ lexer' = r.L
       /\ UNCHANGED <<elements, frame>>
       /\ IF r.exc # NoExc
          THEN pc' = "raised" /\ error' = r.exc /\ UNCHANGED history
          ELSE /\ history' = Append(history, [tok |-> r.tok, state |-> r.L.state,
                                              pos |-> r.L.template_pos - Len(r.L.ch_buf)])
               /\ UNCHANGED <<pc, error>>

RawNext == RawNextToken

RawSpec == RawInit /\ [][RawNext]_vars

(***************************************************************************)
(* is_ws applied to one argument: a character, given by its code point, or *)
(* the end sentinel -1.  history holds the call and its result.            *)
(***************************************************************************)
\* every code point up to MaxAscii, and those around the values and ranges
\* the function names
WsCodePoints ==
    0..MaxAscii \cup {5670, 5760} \cup 8190..8204
    \cup {8232, 8233, 8239, 8287, 12288, 12289}

ClassifyInit ==
    /\ lexer = ClientLexer(<<>>, {})
    /\ pc = "classify"
    /\ elements = <<>>
    /\ frame = NoFrame
    /\ error = NoExc
    /\ history = <<>>

\* is_ws(chr(cp)): ord(chr(cp)) is cp
IsWsOfCharacter ==
    /\ pc = "classify"
    /\ \E cp \in WsCodePoints : history' = <<[ch |-> cp, rv |-> is_ws_cp(cp)]>>
    /\ pc' = "classified"
    /\ UNCHANGED <<lexer, elements, frame, error>>

\* is_ws(-1)
IsWsOfSentinel ==
    /\ pc = "classify"
    /\ history' = <<[ch |-> -1, rv |-> is_ws(END)]>>
    /\ pc' = "classified"
    /\ UNCHANGED <<lexer, elements, frame, error>>

ClassifyNext == IsWsOfCharacter \/ IsWsOfSentinel

ClassifySpec == ClassifyInit /\ [][ClassifyNext]_vars

(***************************************************************************)
(* A client that calls on past the end of the input: any interleaving of   *)
(* _next_token(), next_token() and la(k) on short texts, under the         *)
(* delimiter configurations of RawLexers.  history logs each call with the *)
(* lexical state, the length of la_buf and the number of characters read   *)
(* that it found, and the state it left.                                   *)
(***************************************************************************)
\* nothing, or a literal, then nothing or an opening delimiter, then nothing,
\* a name, a string literal that is never closed, or a character of no token
EofTexts ==
    {lit \o d \o rest :
        lit \in {<<>>, <<"a">>},
        d \in {<<>>, <<"{", "%">>, <<"{", "{">>, <<"{", "#">>, <<"%">>, <<"#">>, <<"{">>},
        rest \in {<<>>, <<"x">>, <<"\"", "a">>, <<"~">>}}

EofInit ==
    /\ lexer \in UNION {RawLexers(text) : text \in EofTexts}
    /\ pc = "eof"
    /\ elements = <<>>
    /\ frame = NoFrame
    /\ error = NoExc
    /\ history = <<>>

EofReturned(r, op, k) ==
    /\ lexer' = r.L
    /\ UNCHANGED <<elements, frame>>
    /\ IF r.exc # NoExc
       THEN pc' = "raised" /\ error' = r.exc /\ UNCHANGED history
       ELSE /\ history' = Append(history, [op |-> op, k |-> k, tok |-> r.tok,
                                           state |-> lexer.state, buffered |-> Len(lexer.la_buf),
                                           pos |-> lexer.template_pos - Len(lexer.ch_buf),
                                           left |-> r.L.state])
            /\ UNCHANGED <<pc, error>>

EofRawNextToken ==
    /\ pc = "eof" /\ Len(history) < MaxEofCalls
    /\ EofReturned(_next_token(lexer), "_next_token", 1)

EofNextToken ==
    /\ pc = "eof" /\ Len(history) < MaxEofCalls
    /\ EofReturned(next_token(lexer), "next_token", 1)

EofLa ==
    /\ pc = "eof" /\ Len(history) < MaxEofCalls
    /\ \E k \in 1..MaxEofK : EofReturned(la(lexer, k), "la", k)

EofNext == EofRawNextToken \/ EofNextToken \/ EofLa

EofSpec == EofInit /\ [][EofNext]_vars

(***************************************************************************)
(* Content negotiation (src/fserve/__init__.py): choose_accept picks one   *)
(* of the media types a handler produces from the text of an Accept        *)
(* header.  Each operator returns what the Python returns on the texts the *)
(* model builds: letters, digits, and the characters / ; = . , * and space.*)
(***************************************************************************)
re_space(ch) == ch \in {" ", "\t", "\n", "\r"}
re_word(ch) ==
    \/ (ord("a") <= ord(ch) /\ ord(ch) <= ord("z"))
    \/ (ord("A") <= ord(ch) /\ ord(ch) <= ord("Z"))
    \/ (ord("0") <= ord(ch) /\ ord(ch) <= ord("9"))
    \/ ch = "_"

\* how far \s* and \w* reach from position i
RECURSIVE SpaceRun(_, _)
SpaceRun(s, i) == IF i <= Len(s) /\ re_space(s[i]) THEN 1 + SpaceRun(s, i + 1) ELSE 0

RECURSIVE WordRun(_, _)
WordRun(s, i) == IF i <= Len(s) /\ re_word(s[i]) THEN 1 + WordRun(s, i + 1) ELSE 0

RECURSIVE SpaceRunBack(_, _)
SpaceRunBack(s, i) == IF i >= 1 /\ re_space(s[i]) THEN 1 + SpaceRunBack(s, i - 1) ELSE 0

\* str.strip()
strip(s) == IF SpaceRun(s, 1) = Len(s) THEN <<>> ELSE SubSeq(s, SpaceRun(s, 1) + 1, Len(s) - SpaceRunBack(s, Len(s)))

\* str.casefold() on ASCII
casefold_ch(ch) == IF ord("A") <= ord(ch) /\ ord(ch) <= ord("Z") THEN CHOOSE c \in Chars : ord(c) = ord(ch) + 32 ELSE ch
casefold(s) == [i \in 1..Len(s) |-> casefold_ch(s[i])]

\* length of the match of accept_list_pattern, \s*,\s*, at position i; 0 is no match
accept_list_pattern(s, i) ==
    Bind(SpaceRun(s, i), LAMBDA a :
       IF i + a <= Len(s) /\ s[i + a] = "," THEN a + 1 + SpaceRun(s, i + a + 1) ELSE 0)

\* accept_list_pattern.split(s), from position i with the piece gathered so far
RECURSIVE accept_list_split(_, _, _)
accept_list_split(s, i, piece) ==
    IF i > Len(s) THEN <<piece>>
    ELSE Bind(accept_list_pattern(s, i), LAMBDA n :
         IF n > 0 THEN <<piece>> \o accept_list_split(s, i + n, <<>>)
         ELSE accept_list_split(s, i + 1, Append(piece, s[i])))

\* accept_element_pattern.match(raw): (\w+)/(\w+)(?:;q=(\w+))? at the start of raw
NoMatch == [matched |-> FALSE, type |-> NONE, subtype |-> NONE, quality |-> NONE]

QualityGroup(raw, p) ==
    IF p + 2 <= Len(raw) /\ SubSeq(raw, p, p + 2) = <<";", "q", "=">> /\ WordRun(raw, p + 3) > 0
    THEN SubSeq(raw, p + 3, p + 2 + WordRun(raw, p + 3))
    ELSE NONE

accept_element_pattern(raw) ==
    Bind(WordRun(raw, 1), LAMBDA t :
       IF t = 0 \/ t + 1 > Len(raw) \/ raw[t + 1] # "/" THEN NoMatch
       ELSE Bind(WordRun(raw, t + 2), LAMBDA u :
            IF u = 0 THEN NoMatch
            ELSE [matched |-> TRUE, type |-> SubSeq(raw, 1, t), subtype |-> SubSeq(raw, t + 2, t + 1 + u),
                  quality |-> QualityGroup(raw, t + 2 + u)]))

AcceptItem(primary_type, subtype, quality) ==
    [primary_type |-> casefold(primary_type), subtype |-> casefold(subtype), quality |-> quality]

matches(self, other) ==
    IF self.primary_type = <<"*">> THEN TRUE
    ELSE IF self.primary_type # other.primary_type THEN FALSE
    ELSE IF self.subtype = <<"*">> THEN TRUE
    ELSE self.subtype = other.subtype

\* quality of one element (lines 179-185): 1.0 unless the group converts
QualityOf(match) ==
    IF ~Truthy(match.quality) THEN FloatVal(1, 0)
    ELSE Bind(py_float(match.quality), LAMBDA f : IF f.exc # NoExc THEN FloatVal(1, 0) ELSE f.rv)

\* the first loop (lines 174-187): the items, and the local `quality` as the
\* loop leaves it
RECURSIVE AcceptItems(_, _, _)
AcceptItems(accept_list, items, quality) ==
    IF accept_list = <<>> THEN [items |-> items, quality |-> quality]
    ELSE Bind(accept_element_pattern(Head(accept_list)), LAMBDA match :
         IF ~match.matched THEN AcceptItems(Tail(accept_list), items, quality)
         ELSE AcceptItems(Tail(accept_list),
                          Append(items, AcceptItem(match.type, match.subtype, QualityOf(match))),
                          QualityOf(match)))

\* a < b on floats
RECURSIVE Pow10(_)
Pow10(n) == IF n <= 0 THEN 1 ELSE 10 * Pow10(n - 1)

FloatLess(a, b) == a.mant * Pow10(a.exp - b.exp) < b.mant * Pow10(b.exp - a.exp)

\* the key of the sort, `lambda v: quality`: the local of choose_accept,
\* whatever the item v is
SortKey(v, quality) == quality

\* list.sort(key=..., reverse=True): descending, items of equal key stay in order
RECURSIVE InsertReverse(_, _, _)
InsertReverse(sorted, v, quality) ==
    IF sorted = <<>> THEN <<v>>
    ELSE IF FloatLess(SortKey(Head(sorted), quality), SortKey(v, quality)) THEN <<v>> \o sorted
    ELSE <<Head(sorted)>> \o InsertReverse(Tail(sorted), v, quality)

RECURSIVE sort_reverse(_, _, _)
sort_reverse(items, sorted, quality) ==
    IF items = <<>> THEN sorted
    ELSE sort_reverse(Tail(items), InsertReverse(sorted, Head(items), quality), quality)

\* the second loop (lines 191-197)
RECURSIVE ProducesItems(_, _)
ProducesItems(produces_list, items) ==
    IF produces_list = <<>> THEN [items |-> items, exc |-> NoExc]
    ELSE Bind(accept_element_pattern(Head(produces_list)), LAMBDA match :
         IF ~match.matched
         THEN [items |-> items, exc |-> [type |-> "ValueError", value |-> Head(produces_list)]]
         ELSE ProducesItems(Tail(produces_list),
                            Append(items, [raw |-> Head(produces_list),
                                           item |-> AcceptItem(match.type, match.subtype, FloatVal(1, 0))])))

\* the nested loops (lines 199-202)
RECURSIVE FirstMatch(_, _, _)
FirstMatch(accept_items, produces_items, j) ==
    IF accept_items = <<>> THEN NONE
    ELSE IF j > Len(produces_items) THEN FirstMatch(Tail(accept_items), produces_items, 1)
    ELSE IF matches(Head(accept_items), produces_items[j].item) THEN produces_items[j].raw
    ELSE FirstMatch(accept_items, produces_items, j + 1)

choose_accept(accept_header, produces_list) ==
    IF ~Truthy(accept_header)
    THEN IF produces_list = <<>> THEN [rv |-> NONE, exc |-> [type |-> "IndexError"]]
         ELSE [rv |-> produces_list[1], exc |-> NoExc]
    ELSE Bind(AcceptItems(accept_list_split(strip(accept_header), 1, <<>>), <<>>, NoneVal), LAMBDA a :
         Bind(ProducesItems(produces_list, <<>>), LAMBDA p :
            IF p.exc # NoExc THEN [rv |-> NONE, exc |-> p.exc]
            ELSE [rv |-> FirstMatch(sort_reverse(a.items, <<>>, a.quality), p.items, 1), exc |-> NoExc]))

(***************************************************************************)
(* A handler that negotiates once: the header a client wrote from the      *)
(* media ranges it accepts, and the types the handler produces.            *)
(***************************************************************************)
\* what a client accepts: a media range and the q it writes with it, if any
MediaRanges == {<<"a", "b">>, <<"a", "c">>, <<"a", "*">>, <<"*", "*">>, <<"A", "B">>}
QualityTexts == {NONE, <<"0", ".", "2">>, <<"0", ".", "8">>}
ClientItems == {[type |-> <<m[1]>>, subtype |-> <<m[2]>>, q |-> q] : m \in MediaRanges, q \in QualityTexts}
Separators == {<<",">>, <<",", " ">>}

FormatItem(it) ==
    it.type \o <<"/">> \o it.subtype \o (IF it.q = NONE THEN <<>> ELSE <<";", "q", "=">> \o it.q)

RECURSIVE FormatHeader(_, _)
FormatHeader(items, sep) ==
    IF items = <<>> THEN <<>>
    ELSE IF Len(items) = 1 THEN FormatItem(items[1])
    ELSE FormatItem(items[1]) \o sep \o FormatHeader(Tail(items), sep)

\* the produced types, one of them not a media type
ProducedTypes == {<<"a", "/", "b">>, <<"a", "/", "c">>, <<"d", "/", "b">>, <<"b">>}
ProducesLists ==
    {p \in UNION {[1..n -> ProducedTypes] : n \in 1..MaxProduces} :
        \A i \in 1..Len(p) : \A j \in 1..Len(p) : p[i] = p[j] => i = j}

ChooseInit ==
    /\ lexer = ClientLexer(<<>>, {})
    /\ pc = "choose"
    /\ elements = <<>>
    /\ \E items \in Strings(ClientItems, MaxItems) : \E sep \in Separators : \E p \in ProducesLists :
          frame = [items |-> items, accept_header |-> FormatHeader(items, sep), produces_list |-> p]
    /\ error = NoExc
    /\ history = <<>>

ChooseAccept ==
    /\ pc = "choose"
    /\ \E r \in {choose_accept(frame.accept_header, frame.produces_list)} :
          /\ history' = <<[accept_header |-> frame.accept_header, produces_list |-> frame.produces_list, rv |-> r.rv]>>
          /\ error' = r.exc
          /\ pc' = IF r.exc # NoExc THEN "raised" ELSE "chosen"
    /\ UNCHANGED <<lexer, elements, frame>>

ChooseNext == ChooseAccept

ChooseSpec == ChooseInit /\ [][ChooseNext]_vars

(***************************************************************************)
(* Template loading (src/fserve/jinja_util.py): the loader that            *)
(* get_jinja_loader returns, the template files it reads, and the          *)
(* up_to_date callables it hands out.  frame holds do_cache, the dict      *)
(* templates and the files' st_mtime; elements holds the closures of the   *)
(* loads made so far; history logs every call of an up_to_date callable.   *)
(* No action removes a file, so open() finds what os.stat() found.         *)
(***************************************************************************)
TemplateNames == {"a", "b"}

\* stands for None where a modification time is expected: no entry in the dict
\* templates, no file to stat
NoMtime == -1

\* get_template (lines 64-83): the closure of up_to_date, or
\* the FileNotFoundError of os.stat
get_template(st_mtime, name) ==
    IF st_mtime[name] = NoMtime
    THEN [rv |-> NoneVal, exc |-> [type |-> "FileNotFoundError", target |-> name]]
    ELSE [rv |-> [target |-> name, current_mtime |-> st_mtime[name]], exc |-> NoExc]

\* up_to_date (lines 70-76) of a closure: the value returned and the dict left
up_to_date(do_cache, templates, closure) ==
    IF ~do_cache THEN [rv |-> FALSE, templates |-> templates]
    ELSE Bind(templates[closure.target], LAMBDA last_mtime :
         [rv |-> last_mtime # NoMtime /\ last_mtime >= closure.current_mtime,
          templates |-> [templates EXCEPT ![closure.target] = closure.current_mtime]])

LoaderInit ==
    /\ lexer = ClientLexer(<<>>, {})
    /\ pc = "loader"
    /\ elements = <<>>
    /\ \E do_cache \in BOOLEAN : \E st_mtime \in [TemplateNames -> {NoMtime, 1}] :
          frame = [do_cache |-> do_cache, templates |-> [t \in TemplateNames |-> NoMtime], st_mtime |-> st_mtime]
    /\ error = NoExc
    /\ history = <<>>

\* the environment loads a template
GetTemplate ==
    /\ pc = "loader" /\ Len(elements) < MaxLoads
    /\ \E name \in TemplateNames : \E r \in {get_template(frame.st_mtime, name)} :
          IF r.exc # NoExc
          THEN pc' = "raised" /\ error' = r.exc /\ UNCHANGED elements
          ELSE elements' = Append(elements, r.rv) /\ UNCHANGED <<pc, error>>
    /\ UNCHANGED <<lexer, frame, history>>

\* somebody writes a template file: its modification time advances
WriteFile ==
    /\ pc = "loader"
    /\ \E name \in TemplateNames : \E m \in {IF frame.st_mtime[name] = NoMtime THEN 1 ELSE frame.st_mtime[name] + 1} :
          /\ m <= MaxMtime
          /\ frame' = [frame EXCEPT !.st_mtime[name] = m]
    /\ UNCHANGED <<lexer, pc, elements, error, history>>

\* the environment asks whether a template it loaded is current
UpToDate ==
    /\ pc = "loader" /\ Len(history) < MaxChecks
    /\ \E i \in 1..Len(elements) : \E r \in {up_to_date(frame.do_cache, frame.templates, elements[i])} :
          /\ frame' = [frame EXCEPT !.templates = r.templates]
          /\ history' = Append(history, [loaded |-> i, rv |-> r.rv,
                                         current_mtime |-> elements[i].current_mtime,
                                         st_mtime |-> frame.st_mtime[elements[i].target]])
    /\ UNCHANGED <<lexer, pc, elements, error>>

LoaderNext == GetTemplate \/ WriteFile \/ UpToDate

LoaderSpec == LoaderInit /\ [][LoaderNext]_vars

(***************************************************************************)
(* Vocabulary of the properties.                                           *)
(***************************************************************************)
Text == lexer.template_text

Letters == {c \in Chars : is_alpha(c)}

StartsWith(t, p) == Len(t) >= Len(p) /\ SubSeq(t, 1, Len(p)) = p
EndsWith(t, p) == Len(t) >= Len(p) /\ SubSeq(t, Len(t) - Len(p) + 1, Len(t)) = p
HasPair(t, a, bs) == \E i \in 1..(Len(t) - 1) : t[i] = a /\ t[i + 1] \in bs
CharsOf(t) == {t[i] : i \in 1..Len(t)}
StripSpaces(t) == SelectSeq(t, LAMBDA c : c # " ")

\* no directive opening {% {{ {# occurs in t
NoOpening(t) == ~HasPair(t, "{", {"%", "{", "#"})

RECURSIVE ConcatTexts(_)
ConcatTexts(tokens) ==
    IF tokens = <<>> THEN <<>> ELSE Head(tokens).text \o ConcatTexts(Tail(tokens))

\* the first name of a directive body m (after leading spaces) and what follows it
NameStart(m) == FirstIndex(m, Chars \ {" "})
NameEnd(m) ==
    CHOOSE j \in NameStart(m)..Len(m) :
        /\ \A i \in NameStart(m)..j : is_alphanum(m[i])
        /\ (j = Len(m) \/ ~is_alphanum(m[j + 1]))
HasCommand(m) == NameStart(m) # 0 /\ is_alpha(m[NameStart(m)])
Command(m) == SubSeq(m, NameStart(m), NameEnd(m))
Arguments(m) == SubSeq(m, NameEnd(m) + 1, Len(m))

TokensOf(element) == IF element.kind = "TemplateText" THEN <<>> ELSE element.tokens
RangeOf(seq) == {seq[i] : i \in 1..Len(seq)}

\* every token the parse holds at the moment
HeldTokens ==
    RangeOf(lexer.la_buf) \cup RangeOf(frame.tokens)
    \cup UNION {RangeOf(TokensOf(elements[i])) : i \in 1..Len(elements)}

(***************************************************************************)
(* C1.  A text that ends inside a block statement or an inline expression  *)
(* (opened by {% or {{, no terminator before the end of input) makes       *)
(* statement_parse raise: it returns no document, and it does not go on    *)
(* collecting tokens once the lexer has reported end of input.             *)
(***************************************************************************)
Unterminated(t) ==
    \E k \in 0..(Len(t) - 2) :
        /\ "{" \notin CharsOf(SubSeq(t, 1, k))
        /\ t[k + 1] = "{"
        /\ \/ t[k + 2] = "%" /\ ~HasPair(SubSeq(t, k + 3, Len(t)), "%", {"}"})
           \/ t[k + 2] = "{" /\ ~HasPair(SubSeq(t, k + 3, Len(t)), "}", {"}"})

C1_UnterminatedRaises ==
    Unterminated(Text) =>
        /\ pc # "returned"
        /\ \A i \in 1..Len(frame.tokens) : frame.tokens[i].tok_type # "EOF"

(***************************************************************************)
(* C2.  A text whose block comment {# is never closed by #} surfaces an    *)
(* unexpected-token error: no document is returned for it.                 *)
(***************************************************************************)
UnclosedComment(t) ==
    \E k \in 0..(Len(t) - 2) :
        /\ "{" \notin CharsOf(SubSeq(t, 1, k))
        /\ t[k + 1] = "{" /\ t[k + 2] = "#"
        /\ ~HasPair(SubSeq(t, k + 3, Len(t)), "#", {"}"})

C2_UnclosedCommentRaises ==
    UnclosedComment(Text) =>
        /\ pc # "returned"
        /\ (pc = "raised" => error.type = "UnexpectedTokenError")

(***************************************************************************)
(* C3.  As claimed: every text without a directive opening, of any length, *)
(* parses to exactly one text element holding the text verbatim.           *)
(***************************************************************************)
C3_LiteralRoundTrip_AnyLength ==
    NoOpening(Text) =>
        /\ pc # "raised"
        /\ (pc = "returned" => elements = <<TemplateText(Text)>>)

(***************************************************************************)
(* C3, amended.  Every non-empty text without a directive opening parses   *)
(* to exactly one text element holding the text verbatim (a lone { inside  *)
(* or at the end included); the empty text parses to the empty document.   *)
(***************************************************************************)
C3_LiteralRoundTrip ==
    NoOpening(Text) =>
        /\ pc \in {"document", "returned"}
        /\ elements \in {<<>>, <<TemplateText(Text)>>}
        /\ (pc = "returned" =>
                elements = IF Text = <<>> THEN <<>> ELSE <<TemplateText(Text)>>)

C3_Witness ==
    /\ pc = "returned"
    /\ NoOpening(Text)
    /\ Len(Text) >= 3
    /\ Text[Len(Text)] = "{"
    /\ "{" \in CharsOf(SubSeq(Text, 1, Len(Text) - 1))
    /\ elements = <<TemplateText(Text)>>

(***************************************************************************)
(* C4.  A quoted string literal in an inline expression is one string      *)
(* token whose value is the decoded string: \n \r \t \a \b \f \v give the  *)
(* control character, \x and two hex digits the character of that code,    *)
(* any other escaped character itself.                                     *)
(***************************************************************************)
Chr(n) == IF \E c \in Chars : ord(c) = n THEN CHOOSE c \in Chars : ord(c) = n ELSE "<ctl>"

EscapeChar(c) ==
    CASE c = "n" -> "\n" [] c = "r" -> "\r" [] c = "t" -> "\t"
      [] c = "a" -> Chr(7) [] c = "b" -> Chr(8) [] c = "f" -> Chr(12) [] c = "v" -> Chr(11)
      [] OTHER -> c

\* the escapes the claim speaks of: not the octal, \N, \u, \U forms
RECURSIVE WellFormedStr(_)
WellFormedStr(m) ==
    IF m = <<>> THEN TRUE
    ELSE IF m[1] = "\"" THEN FALSE
    ELSE IF m[1] # "\\" THEN WellFormedStr(Tail(m))
    ELSE IF Len(m) < 2 \/ m[2] \in {"0", "1", "2", "3", "4", "5", "6", "7", "N", "u", "U"} THEN FALSE
    ELSE IF m[2] = "x"
    THEN Len(m) >= 4 /\ is_digit(m[3], 16).rv /\ is_digit(m[4], 16).rv
         /\ WellFormedStr(SubSeq(m, 5, Len(m)))
    ELSE WellFormedStr(SubSeq(m, 3, Len(m)))

RECURSIVE Decoded(_)
Decoded(m) ==
    IF m = <<>> THEN <<>>
    ELSE IF m[1] # "\\" THEN <<m[1]>> \o Decoded(Tail(m))
    ELSE IF m[2] = "x"
    THEN <<Chr(16 * DigitVal(m[3]) + DigitVal(m[4]))>> \o Decoded(SubSeq(m, 5, Len(m)))
    ELSE <<EscapeChar(m[2])>> \o Decoded(SubSeq(m, 3, Len(m)))

\* {{"body"}} or {{ "body" }}
StrPad(t) == IF Len(t) >= 3 /\ t[3] = " " THEN <<" ">> ELSE <<>>
StrBody(t) == SubSeq(t, 4 + Len(StrPad(t)), Len(t) - 3 - Len(StrPad(t)))
IsStrLiteral(t) ==
    /\ Len(t) >= 6 + 2 * Len(StrPad(t))
    /\ t = <<"{", "{">> \o StrPad(t) \o <<"\"">> \o StrBody(t) \o <<"\"">> \o StrPad(t) \o <<"}", "}">>
    /\ WellFormedStr(StrBody(t))

C4_StringEscapes ==
    IsStrLiteral(Text) =>
        /\ pc # "raised"
        /\ (pc = "returned" =>
                /\ Len(elements) = 1
                /\ elements[1].kind = "TemplateInline"
                /\ Len(elements[1].tokens) = 1
                /\ elements[1].tokens[1].tok_type = "STR_LIT"
                /\ elements[1].tokens[1].value = StrVal(Decoded(StrBody(Text))))

(***************************************************************************)
(* C5.  A block statement with a + or - right after {% and right before %} *)
(* parses to one Statement: the markers are those characters, the command  *)
(* is the first name, the arguments are the remaining non-whitespace       *)
(* tokens in source order.                                                 *)
(***************************************************************************)
TokenChars == Letters \cup {"1", " ", "-", "="}

MarkedBody(t) == SubSeq(t, 4, Len(t) - 3)
IsMarkedStatement(t) ==
    /\ Len(t) >= 7
    /\ StartsWith(t, <<"{", "%">>) /\ t[3] \in {"+", "-"}
    /\ EndsWith(t, <<"%", "}">>) /\ t[Len(t) - 2] \in {"+", "-"}
    /\ CharsOf(MarkedBody(t)) \subseteq TokenChars
    /\ HasCommand(MarkedBody(t))

C5_MarkedStatement ==
    IsMarkedStatement(Text) =>
        /\ pc # "raised"
        /\ (pc = "returned" =>
                /\ Len(elements) = 1
                /\ elements[1].kind = "TemplateStatement"
                /\ elements[1].l_ws_control = <<Text[3]>>
                /\ elements[1].r_ws_control = <<Text[Len(Text) - 2]>>
                /\ elements[1].command = Command(MarkedBody(Text))
                /\ \A i \in 1..Len(elements[1].tokens) : elements[1].tokens[i].tok_type # "WS"
                /\ ConcatTexts(elements[1].tokens) = StripSpaces(Arguments(MarkedBody(Text))))

(***************************************************************************)
(* C6.  A block statement written without + or - markers parses to one     *)
(* Statement whose command is the first name, whose arguments are the      *)
(* remaining tokens with whitespace removed, and whose markers are both    *)
(* absent.  (Here a - occurs only inside the string literal "-".)          *)
(***************************************************************************)
PlainBody(t) == SubSeq(t, 3, Len(t) - 2)
OnlyQuotedMinus(m) ==
    /\ \A i \in 1..Len(m) : m[i] = "-" => (i > 1 /\ i < Len(m) /\ m[i - 1] = "\"" /\ m[i + 1] = "\"")
    /\ \A i \in 1..Len(m) : m[i] = "\"" =>
            \/ (i + 2 <= Len(m) /\ m[i + 1] = "-" /\ m[i + 2] = "\"")
            \/ (i > 2 /\ m[i - 1] = "-" /\ m[i - 2] = "\"")
    /\ ~HasPair(m, "\"", {"\""})
IsPlainStatement(t) ==
    /\ Len(t) >= 5
    /\ StartsWith(t, <<"{", "%">>) /\ EndsWith(t, <<"%", "}">>)
    /\ CharsOf(PlainBody(t)) \subseteq Letters \cup {" ", "=", "\"", "-"}
    /\ OnlyQuotedMinus(PlainBody(t))
    /\ HasCommand(PlainBody(t))

C6_PlainStatement ==
    IsPlainStatement(Text) =>
        /\ pc # "raised"
        /\ (pc = "returned" =>
                /\ Len(elements) = 1
                /\ elements[1].kind = "TemplateStatement"
                /\ elements[1].l_ws_control = NONE
                /\ elements[1].r_ws_control = NONE
                /\ elements[1].command = Command(PlainBody(Text))
                /\ ConcatTexts(elements[1].tokens) = StripSpaces(Arguments(PlainBody(Text))))

(***************************************************************************)
(* C7.  Literal text, {{ tokens }}, literal text parses to three elements  *)
(* in source order: the leading text, an inline element holding exactly    *)
(* the non-whitespace tokens between the delimiters, the trailing text.    *)
(***************************************************************************)
LastIndex(t, set) ==
    IF \E i \in 1..Len(t) : t[i] \in set
    THEN CHOOSE i \in 1..Len(t) : t[i] \in set /\ \A j \in (i + 1)..Len(t) : t[j] \notin set
    ELSE 0
Lead(t) == SubSeq(t, 1, FirstIndex(t, {"{"}) - 1)
Trail(t) == SubSeq(t, LastIndex(t, {"}"}) + 1, Len(t))
InlineBody(t) == SubSeq(t, FirstIndex(t, {"{"}) + 2, LastIndex(t, {"}"}) - 2)
IsTextInlineText(t) ==
    /\ FirstIndex(t, {"{"}) > 1
    /\ LastIndex(t, {"}"}) >= FirstIndex(t, {"{"}) + 3
    /\ LastIndex(t, {"}"}) < Len(t)
    /\ t = Lead(t) \o <<"{", "{">> \o InlineBody(t) \o <<"}", "}">> \o Trail(t)
    /\ CharsOf(Lead(t)) \cup CharsOf(Trail(t)) \subseteq Letters \cup {" ", "!"}
    /\ CharsOf(InlineBody(t)) \subseteq TokenChars

C7_TextInlineText ==
    IsTextInlineText(Text) =>
        /\ pc # "raised"
        /\ (pc = "returned" =>
                /\ Len(elements) = 3
                /\ elements[1] = TemplateText(Lead(Text))
                /\ elements[2].kind = "TemplateInline"
                /\ \A i \in 1..Len(elements[2].tokens) : elements[2].tokens[i].tok_type # "WS"
                /\ ConcatTexts(elements[2].tokens) = StripSpaces(InlineBody(Text))
                /\ elements[3] = TemplateText(Trail(Text)))

(***************************************************************************)
(* C8.  A numeric literal yields exactly one numeric token carrying the    *)
(* literal's raw text and its decoded value: 0x1F the integer 31, 3.14 and *)
(* 1e3 floating-point values (1e3 is 1000.0), a run of decimal digits an   *)
(* integer; and so for the signed and the binary literals of the grammar.  *)
(***************************************************************************)
NumericCases ==
    { [text |-> <<"0", "x", "1", "F">>, value |-> IntVal(31)],
      [text |-> <<"3", ".", "1", "4">>, value |-> FloatVal(314, -2)],
      [text |-> <<"1", "e", "3">>, value |-> Normalize(1000, 0)],
      [text |-> <<"4", "2">>, value |-> IntVal(42)],
      [text |-> <<"-", "1">>, value |-> IntVal(-1)],
      [text |-> <<"0", "b", "1", "0", "1">>, value |-> IntVal(5)] }

C8_NumericLiteral ==
    \A c \in NumericCases :
        Text = <<"{", "{", " ">> \o c.text \o <<" ", "}", "}">> =>
            /\ pc # "raised"
            /\ (pc = "returned" =>
                    /\ Len(elements) = 1
                    /\ elements[1].kind = "TemplateInline"
                    /\ Len(elements[1].tokens) = 1
                    /\ elements[1].tokens[1].tok_type = "NUM_LIT"
                    /\ elements[1].tokens[1].text = c.text
                    /\ elements[1].tokens[1].value = c.value)

(***************************************************************************)
(* C9.  In every returned document, for every two adjacent elements, each  *)
(* token offset of the later element is at least the end offset (offset    *)
(* plus text length) of each token of the earlier element.                 *)
(***************************************************************************)
C9_OffsetMonotonicity ==
    pc = "returned" =>
        \A i \in 1..(Len(elements) - 1) :
            \A a \in RangeOf(TokensOf(elements[i])), b \in RangeOf(TokensOf(elements[i + 1])) :
                b.offset >= a.offset + Len(a.text)

C9_Witness ==
    /\ pc = "returned"
    /\ \E i \in 1..(Len(elements) - 1) :
            /\ Len(TokensOf(elements[i])) >= 2
            /\ TokensOf(elements[i + 1]) # <<>>

(***************************************************************************)
(* C10.  Every token the lexer produces has the absolute index of its      *)
(* first character as offset and the source slice it was recognised from   *)
(* as text: source[offset : offset + len(text)] = text, the opening and    *)
(* terminator delimiter tokens included.                                   *)
(***************************************************************************)
DelimiterText(tok_type) ==
    CASE tok_type = "STATEMENT_START" -> lexer.block_start
      [] tok_type = "STATEMENT_END" -> lexer.block_end
      [] tok_type = "INLINE_START" -> lexer.inline_start
      [] tok_type = "INLINE_END" -> lexer.inline_end

ExactSlice(tok) ==
    /\ tok.offset + Len(tok.text) <= Len(Text)
    /\ SubSeq(Text, tok.offset + 1, tok.offset + Len(tok.text)) = tok.text
    /\ (tok.tok_type \in {"STATEMENT_START", "STATEMENT_END", "INLINE_START", "INLINE_END"}
            => tok.text = DelimiterText(tok.tok_type))

C10_TokenOffsetAndText == \A tok \in HeldTokens : ExactSlice(tok)

(***************************************************************************)
(* C11.  Every Statement element of a returned document has a command: it  *)
(* is never null, it is the text of a name (a letter or _ followed by      *)
(* letters, digits, _), and it is the first token after the opening        *)
(* delimiter and the optional marker adjacent to it.                       *)
(***************************************************************************)
IsName(s) ==
    /\ s # NONE /\ s # <<>>
    /\ is_alpha(s[1])
    /\ \A i \in 1..Len(s) : is_alphanum(s[i])

\* what follows {% and a + or - written directly after it
AfterMarker(t) ==
    IF Len(t) >= 3 /\ t[3] \in {"+", "-"} THEN SubSeq(t, 4, Len(t)) ELSE SubSeq(t, 3, Len(t))

C11_CommandIsFirstName ==
    pc = "returned" =>
        /\ \A i \in 1..Len(elements) :
                elements[i].kind = "TemplateStatement" => IsName(elements[i].command)
        /\ (StartsWith(Text, <<"{", "%">>) /\ elements # <<>> =>
                /\ elements[1].kind = "TemplateStatement"
                /\ HasCommand(AfterMarker(Text))
                /\ elements[1].command = Command(AfterMarker(Text)))

\* the first half alone: the command is present and is a name
C11_CommandIsName ==
    pc = "returned" =>
        \A i \in 1..Len(elements) :
            elements[i].kind = "TemplateStatement" => IsName(elements[i].command)

(***************************************************************************)
(* C12.  When the first token after {% and the optional adjacent marker is *)
(* not a name (a number, a string literal, an operator or the terminator   *)
(* %}), statement_parse raises UnexpectedTokenError carrying that token,   *)
(* whose offset is the token's index in the text, and the expected kind    *)
(* NAME_OR_KEYWORD; it returns no document.                                *)
(***************************************************************************)
\* index in t (from 1) of the first character after the marker and spaces
CommandIndex(t) == (Len(t) - Len(AfterMarker(t))) + NameStart(AfterMarker(t))

StartsNonName(m) ==
    \/ is_digit(m[1], 10).rv
    \/ m[1] \in {"=", "-", "+"}
    \/ StartsWith(m, <<"%", "}">>)
    \/ m[1] = "\"" /\ "\"" \in CharsOf(Tail(m))

NonNameCommand(t) ==
    /\ Len(t) >= 4 /\ StartsWith(t, <<"{", "%">>) /\ EndsWith(t, <<"%", "}">>)
    /\ NameStart(AfterMarker(t)) # 0
    /\ StartsNonName(SubSeq(t, CommandIndex(t), Len(t)))

C12_NonNameCommandRejected ==
    pc \in {"returned", "raised"} /\ NonNameCommand(Text) =>
        /\ pc = "raised"
        /\ error.type = "UnexpectedTokenError"
        /\ error.token.tok_type # "NAME_OR_KEYWORD"
        /\ error.token.offset = CommandIndex(Text) - 1
        /\ error.expected = {"NAME_OR_KEYWORD"}

\* the same without the offset: an UnexpectedTokenError is what is raised
C12_NonNameCommandRaises ==
    pc \in {"returned", "raised"} /\ NonNameCommand(Text) =>
        pc = "raised" /\ error.type = "UnexpectedTokenError"

\* the same for a numeric literal alone
C12_NumberCommandRaises ==
    pc \in {"returned", "raised"} /\ NonNameCommand(Text) /\ is_digit(Text[CommandIndex(Text)], 10).rv =>
        pc = "raised" /\ error.type = "UnexpectedTokenError"

(***************************************************************************)
(* C13.  In a returned document a Statement's marker, when present, is the *)
(* one character + or -, and it is the character written directly after    *)
(* the opening {% (left marker) or directly before the closing %} (right   *)
(* marker), nothing standing between the two.                              *)
(***************************************************************************)
IsMarker(m) == m \in {<<"+">>, <<"-">>}

C13_MarkerIsSign ==
    pc = "returned" =>
        \A i \in 1..Len(elements) :
            elements[i].kind = "TemplateStatement" =>
                /\ elements[i].l_ws_control # NONE => IsMarker(elements[i].l_ws_control)
                /\ elements[i].r_ws_control # NONE => IsMarker(elements[i].r_ws_control)

\* the statement that opens the text / that closes the text
OpensWithStatement ==
    /\ elements # <<>> /\ elements[1].kind = "TemplateStatement"
    /\ StartsWith(Text, <<"{", "%">>)
ClosesWithStatement ==
    /\ elements # <<>> /\ elements[Len(elements)].kind = "TemplateStatement"
    /\ EndsWith(Text, <<"%", "}">>)

C13_MarkerAdjacent ==
    pc = "returned" =>
        /\ C13_MarkerIsSign
        /\ (OpensWithStatement /\ elements[1].l_ws_control # NONE =>
                Text[3] \in {"+", "-"} /\ elements[1].l_ws_control = <<Text[3]>>)
        /\ (ClosesWithStatement /\ elements[Len(elements)].r_ws_control # NONE =>
                /\ Text[Len(Text) - 2] \in {"+", "-"}
                /\ elements[Len(elements)].r_ws_control = <<Text[Len(Text) - 2]>>)

(***************************************************************************)
(* C14.  A returned document is lossless over literal text.  Cut the text  *)
(* into segments: the spans of block statements {% .. %}, inline           *)
(* expressions {{ .. }} and block comments {# .. #} (opening delimiter     *)
(* through the first terminator after it) and the literal text between     *)
(* them.  The Text elements' contents, concatenated in order, are the text *)
(* with every span removed, and the elements are, in order, the segments   *)
(* that are not comments, each Text element holding its literal segment.   *)
(* Stated for texts without quotes, where a terminator cannot be hidden    *)
(* in a string literal.                                                    *)
(***************************************************************************)
Terminator(open) ==
    CASE open = "%" -> "%" [] open = "{" -> "}" [] open = "#" -> "#" [] OTHER -> NOCHAR

SegmentKind(open) ==
    CASE open = "%" -> "TemplateStatement" [] open = "{" -> "TemplateInline" [] OTHER -> "comment"

\* t starts with an opening delimiter: the index of the } that closes its
\* span, 0 when no terminator follows
SpanEnd(t) ==
    IF \E j \in 3..(Len(t) - 1) : t[j] = Terminator(t[2]) /\ t[j + 1] = "}"
    THEN 1 + CHOOSE j \in 3..(Len(t) - 1) :
                /\ t[j] = Terminator(t[2]) /\ t[j + 1] = "}"
                /\ \A i \in 3..(j - 1) : ~(t[i] = Terminator(t[2]) /\ t[i + 1] = "}")
    ELSE 0

IsSpanStart(t) ==
    Len(t) >= 2 /\ t[1] = "{" /\ t[2] \in {"%", "{", "#"} /\ SpanEnd(t) # 0

Flush(lit) == IF lit = <<>> THEN <<>> ELSE <<[kind |-> "TemplateText", span |-> lit]>>

RECURSIVE Segments(_, _)
Segments(t, lit) ==
    IF t = <<>> THEN Flush(lit)
    ELSE IF IsSpanStart(t)
    THEN Flush(lit) \o <<[kind |-> SegmentKind(t[2]), span |-> SubSeq(t, 1, SpanEnd(t))]>>
         \o Segments(SubSeq(t, SpanEnd(t) + 1, Len(t)), <<>>)
    ELSE Segments(Tail(t), Append(lit, t[1]))

RECURSIVE ConcatSpans(_)
ConcatSpans(segs) == IF segs = <<>> THEN <<>> ELSE Head(segs).span \o ConcatSpans(Tail(segs))

IsLiteral(seg) == seg.kind = "TemplateText"
IsElementSegment(seg) == seg.kind # "comment"
TextElements == SelectSeq(elements, LAMBDA e : e.kind = "TemplateText")

Quoted(t) == "\"" \in CharsOf(t) \/ "'" \in CharsOf(t)

\* the element a segment stands for: its kind, and its text when literal
Matches(element, seg) ==
    /\ element.kind = seg.kind
    /\ element.kind = "TemplateText" => element.text = seg.span

C14_Lossless ==
    pc = "returned" /\ ~Quoted(Text) =>
        /\ ConcatTexts(TextElements) = ConcatSpans(SelectSeq(Segments(Text, <<>>), IsLiteral))
        /\ Len(elements) = Len(SelectSeq(Segments(Text, <<>>), IsElementSegment))
        /\ \A i \in 1..Len(elements) :
                Matches(elements[i], SelectSeq(Segments(Text, <<>>), IsElementSegment)[i])

\* an opening {# with no #} after it
HasUnclosedComment(t) ==
    \E k \in 1..(Len(t) - 1) :
        t[k] = "{" /\ t[k + 1] = "#" /\ ~HasPair(SubSeq(t, k + 2, Len(t)), "#", {"}"})

\* the same for texts in which every comment that is opened is closed
C14_LosslessClosedComments ==
    pc = "returned" /\ ~Quoted(Text) /\ ~HasUnclosedComment(Text) =>
        /\ ConcatTexts(TextElements) = ConcatSpans(SelectSeq(Segments(Text, <<>>), IsLiteral))
        /\ Len(elements) = Len(SelectSeq(Segments(Text, <<>>), IsElementSegment))
        /\ \A i \in 1..Len(elements) :
                Matches(elements[i], SelectSeq(Segments(Text, <<>>), IsElementSegment)[i])

(***************************************************************************)
(* C15.  Under any interleaving of next_token() and la(k) on one lexer, no *)
(* returned token has a kind of the ignore set, and ignored tokens take no *)
(* slot: next_token() returns the raw token stream with the ignored kinds  *)
(* struck out, one token per call, and la(k) returns the k-th token of     *)
(* that stream after those next_token() has returned.                      *)
(***************************************************************************)
\* the raw tokens of a lexer up to the first EOF or exception
RECURSIVE RawStream(_, _)
RawStream(L, fuel) ==
    IF fuel = 0 THEN <<>>
    ELSE Bind(_next_token(L), LAMBDA r :
         IF r.exc # NoExc THEN <<>>
         ELSE IF r.tok.tok_type = "EOF" THEN <<r.tok>>
         ELSE <<r.tok>> \o RawStream(r.L, fuel - 1))

FreshLexer == ClientLexer(lexer.template_text, lexer.ignore_tokens)
NotIgnored(tok) == tok.tok_type \notin lexer.ignore_tokens
Visible == SelectSeq(RawStream(FreshLexer, 2 * Len(lexer.template_text) + 2), NotIgnored)

\* the n-th token of vis; EOF repeats once it has been reached
VisibleAt(vis, n) == IF n <= Len(vis) THEN vis[n] ELSE vis[Len(vis)]

\* next_token() calls completed before the i-th call
Consumed(i) == Cardinality({j \in 1..(i - 1) : history[j].op = "next_token"})

C15_IgnoredNeverReturned ==
    pc \in {"client", "raised"} =>
        /\ \E vis \in {Visible} :
              \A i \in 1..Len(history) :
                 /\ history[i].tok.tok_type \notin lexer.ignore_tokens
                 /\ vis # <<>>
                 /\ history[i].tok = VisibleAt(vis, Consumed(i) + history[i].k)
        /\ \A i \in 1..Len(lexer.la_buf) : lexer.la_buf[i].tok_type \notin lexer.ignore_tokens

\* a call la(k), k >= 2, that had to pass an ignored token, then a next_token()
C15_Witness ==
    /\ pc = "client"
    /\ Len(history) = MaxCalls
    /\ \E i \in 1..(Len(history) - 1) :
          /\ history[i].op = "la" /\ history[i].k >= 2
          /\ history[i + 1].op = "next_token"
    /\ Len(Visible) < Len(RawStream(FreshLexer, 2 * Len(lexer.template_text) + 2))
    /\ RawStream(FreshLexer, 2)[2].tok_type \in lexer.ignore_tokens

(***************************************************************************)
(* C16.  Inside a block statement a character that can start no token (~   *)
(* stands for them here) makes the lexer raise InvalidSyntaxError carrying *)
(* that character and its index in the text; the character is not skipped  *)
(* and no document is returned.  Stated for the first ~ of a text {% .. ,  *)
(* what precedes it being spaces only, or a command and tokens made of     *)
(* letters, digits, spaces and =, so that the lexer does arrive at it.     *)
(***************************************************************************)
InvalidIndex(t) == FirstIndex(t, {"~"})
BeforeInvalid(t) == SubSeq(t, 3, InvalidIndex(t) - 1)

ReachesInvalid(t) ==
    /\ StartsWith(t, <<"{", "%">>)
    /\ InvalidIndex(t) >= 3
    /\ CharsOf(BeforeInvalid(t)) \subseteq {"x", "1", " ", "="}
    /\ (HasCommand(BeforeInvalid(t)) \/ CharsOf(BeforeInvalid(t)) \subseteq {" "})

C16_InvalidCharacterRaises ==
    pc \in {"returned", "raised"} /\ ReachesInvalid(Text) =>
        /\ pc = "raised"
        /\ error.type = "InvalidSyntaxError"
        /\ error.message = <<"Invalid token: ", "~">>
        /\ error.position = InvalidIndex(Text) - 1

\* the same without the offset
C16_InvalidCharacterRaisesSomewhere ==
    pc \in {"returned", "raised"} /\ ReachesInvalid(Text) =>
        /\ pc = "raised"
        /\ error.type = "InvalidSyntaxError"
        /\ error.message = <<"Invalid token: ", "~">>

RECURSIVE ConcatConsumed(_)
ConcatConsumed(calls) ==
    IF calls = <<>> THEN <<>> ELSE Head(calls).consumed \o ConcatConsumed(Tail(calls))

\* the characters delivered as consumed by the first n calls
Delivered(n) == ConcatConsumed(SubSeq(history, 1, n))
\* how many of them are characters of the text (not the sentinel)
Position(n) == Len(SelectSeq(Delivered(n), LAMBDA c : c # END))

CharAt(n) == IF n <= Len(Text) THEN Text[n] ELSE END

C18_PeekReturnsKthAhead ==
    pc = "cursor" =>
        \A i \in 1..Len(history) :
            history[i].op = "_la" => history[i].rv = CharAt(Position(i - 1) + history[i].k)

\* the same for k = 1 alone
C18_PeekReturnsNext ==
    pc = "cursor" =>
        \A i \in 1..Len(history) :
            history[i].op = "_la" /\ history[i].k = 1 => history[i].rv = CharAt(Position(i - 1) + 1)

(***************************************************************************)
(* C19.  Under any interleaving of _next(), _la(k) and _clear_la() the     *)
(* characters delivered as consumed are the characters of the text in      *)
(* order, each once, and after them the sentinel on every later _next();   *)
(* no call raises, and after _clear_la() the peek buffer is empty.         *)
(***************************************************************************)
\* the text followed by sentinels, n characters long
RECURSIVE Sentinels(_)
Sentinels(n) == IF n <= 0 THEN <<>> ELSE <<END>> \o Sentinels(n - 1)
TextThenSentinels(n) ==
    IF n <= Len(Text) THEN SubSeq(Text, 1, n) ELSE Text \o Sentinels(n - Len(Text))

C19_ConsumedInSourceOrder ==
    pc = "cursor" =>
        /\ Delivered(Len(history)) = TextThenSentinels(Len(Delivered(Len(history))))
        /\ (history # <<>> /\ history[Len(history)].op = "_clear_la" => lexer.ch_buf = <<>>)
        /\ error = NoExc

\* a peek beyond the buffer, a _clear_la() that consumed what was peeked,
\* then a _next() that delivered a character of the text
C19_Witness ==
    /\ pc = "cursor"
    /\ Len(history) = MaxCursorCalls
    /\ \E i \in 1..(Len(history) - 2) :
          /\ history[i].op = "_la" /\ history[i].k >= 2
          /\ history[i + 1].op = "_clear_la" /\ history[i + 1].consumed # <<>>
          /\ history[i + 2].op = "_next" /\ history[i + 2].rv # END
    /\ history[Len(history)].op = "_next" /\ history[Len(history)].rv = END

(***************************************************************************)
(* C20.  In template text, when an opening delimiter is matched after      *)
(* literal text was buffered, the raw call returns TEMPLATE_DATA holding   *)
(* exactly that literal, the next raw call returns the delimiter token and *)
(* consumes nothing, and the lexer is then in the delimiter's state        *)
(* (block 1, comment 2, line statement 3, line comment 4, inline 5); with  *)
(* no literal buffered the delimiter token is returned at once.  The first *)
(* delimiter of a text is located in the text itself, for delimiters of    *)
(* one or two characters; every later deferral is followed through the     *)
(* log.                                                                    *)
(***************************************************************************)
OpeningKinds ==
    {"STATEMENT_START", "INLINE_START", "COMMENT_START", "LINE_STATEMENT_PREFIX", "LINE_COMMENT_PREFIX"}

DelimiterOf(L, kind) ==
    CASE kind = "STATEMENT_START" -> L.block_start
      [] kind = "INLINE_START" -> L.inline_start
      [] kind = "COMMENT_START" -> L.comment_start
      [] kind = "LINE_STATEMENT_PREFIX" -> L.line_statement_prefix
      [] kind = "LINE_COMMENT_PREFIX" -> L.line_comment_prefix

StateFor(kind) ==
    CASE kind = "STATEMENT_START" -> 1
      [] kind = "COMMENT_START" -> 2
      [] kind = "LINE_STATEMENT_PREFIX" -> 3
      [] kind = "LINE_COMMENT_PREFIX" -> 4
      [] kind = "INLINE_START" -> 5

ConfiguredKinds(L) == {kind \in OpeningKinds : DelimiterOf(L, kind) # NONE}
FirstChars(L) == {DelimiterOf(L, kind)[1] : kind \in ConfiguredKinds(L)}

\* the first place of the text where a delimiter could start, and the kinds
\* whose delimiter stands there in full
OpeningIndex == FirstIndex(Text, FirstChars(lexer))
KindsAtOpening ==
    {kind \in ConfiguredKinds(lexer) :
        StartsWith(SubSeq(Text, OpeningIndex, Len(Text)), DelimiterOf(lexer, kind))}
Literal == SubSeq(Text, 1, OpeningIndex - 1)

\* a delimiter of n characters at most stands in full at the first opening
HasOpeningUpTo(n) ==
    /\ OpeningIndex # 0
    /\ Cardinality(KindsAtOpening) = 1
    /\ \A kind \in KindsAtOpening : Len(DelimiterOf(lexer, kind)) <= n

\* the i-th call returned the opening delimiter of kind and left its state
IsOpeningCall(i, kind) ==
    /\ history[i].tok.tok_type = kind
    /\ history[i].tok.text = DelimiterOf(lexer, kind)
    /\ history[i].state = StateFor(kind)
    /\ history[i].pos = Len(Literal) + Len(DelimiterOf(lexer, kind))

FirstOpeningDeferred(n) ==
    HasOpeningUpTo(n) /\ history # <<>> =>
        \A kind \in KindsAtOpening :
            IF Literal = <<>> THEN IsOpeningCall(1, kind)
            ELSE /\ history[1].tok.tok_type = "TEMPLATE_DATA"
                 /\ history[1].tok.text = Literal
                 /\ history[1].pos = Len(Literal) + Len(DelimiterOf(lexer, kind))
                 /\ Len(history) >= 2 => IsOpeningCall(2, kind)

\* state 6 after a call: a delimiter is held; the call returned the literal
\* and the next call returns the held delimiter and nothing else
DeferralsHonoured ==
    \A i \in 1..Len(history) :
        history[i].state = 6 =>
            /\ history[i].tok.tok_type = "TEMPLATE_DATA" /\ history[i].tok.text # <<>>
            /\ i < Len(history) =>
                  /\ history[i + 1].tok.tok_type \in OpeningKinds
                  /\ history[i + 1].state = StateFor(history[i + 1].tok.tok_type)
                  /\ history[i + 1].pos = history[i].pos

C20_HeldDelimiter ==
    pc \in {"raw", "raised"} => FirstOpeningDeferred(2) /\ DeferralsHonoured

\* literal text, then a line statement prefix returned by the second call
C20_Witness ==
    /\ pc = "raw"
    /\ Len(history) >= 3
    /\ HasOpeningUpTo(2) /\ Literal # <<>>
    /\ history[1].tok.tok_type = "TEMPLATE_DATA"
    /\ history[2].tok.tok_type = "LINE_STATEMENT_PREFIX"
    /\ history[2].state = 3

\* C18, its consequence: a delimiter of three characters standing in full
\* in the text is recognised like any other
C18_LongDelimiterRecognised ==
    pc \in {"raw", "raised"} => FirstOpeningDeferred(3)

(***************************************************************************)
(* C21.  With the comment kinds not ignored, a block comment {# body #}    *)
(* with a body that is not empty yields COMMENT_START, then COMMENT_DATA   *)
(* whose text is the body, then COMMENT_END on the next call; COMMENT_END  *)
(* follows COMMENT_START directly only when the body is empty.  Stated for *)
(* a text that opens with the comment.                                     *)
(***************************************************************************)
OpensWithComment ==
    /\ lexer.comment_start = <<"{", "#">> /\ lexer.comment_end = <<"#", "}">>
    /\ "COMMENT_DATA" \notin lexer.ignore_tokens
    /\ StartsWith(Text, <<"{", "#">>)
    /\ SpanEnd(Text) # 0

CommentBody == SubSeq(Text, 3, SpanEnd(Text) - 2)

C21_CommentDataThenEnd ==
    pc \in {"raw", "raised"} /\ OpensWithComment /\ Len(history) >= 3 =>
        /\ history[1].tok.tok_type = "COMMENT_START"
        /\ IF CommentBody # <<>>
           THEN /\ history[2].tok.tok_type = "COMMENT_DATA"
                /\ history[2].tok.text = CommentBody
                /\ history[3].tok.tok_type = "COMMENT_END"
           ELSE history[2].tok.tok_type = "COMMENT_END"

\* the same for the empty body alone
C21_EmptyCommentEndsAtOnce ==
    pc \in {"raw", "raised"} /\ OpensWithComment /\ Len(history) >= 3 /\ CommentBody = <<>> =>
        /\ history[1].tok.tok_type = "COMMENT_START"
        /\ history[2].tok.tok_type = "COMMENT_END"

(***************************************************************************)
(* C22.  With a line-statement prefix configured, the first line break     *)
(* after a line statement's tokens yields STATEMENT_END and puts the lexer *)
(* back into template-text state, whatever the ignore set and also when    *)
(* the next line starts with whitespace.  Stated for the line statement    *)
(* %c at the start of a text, ended by a line feed.                        *)
(***************************************************************************)
OpensWithLineStatement ==
    /\ lexer.line_statement_prefix = <<"%">>
    /\ StartsWith(Text, <<"%", "c", "\n">>)

C22_LineBreakEndsStatement ==
    pc \in {"raw", "raised"} /\ OpensWithLineStatement /\ Len(history) >= 3 =>
        /\ history[1].tok.tok_type = "LINE_STATEMENT_PREFIX"
        /\ history[2].tok.tok_type = "NAME_OR_KEYWORD"
        /\ history[3].tok.tok_type = "STATEMENT_END"
        /\ history[3].state = 0

\* the same when whitespace is not ignored and the next line starts with none
C22_LineBreakEndsStatementPlain ==
    pc \in {"raw", "raised"} /\ OpensWithLineStatement /\ Len(history) >= 3
    /\ "WS" \notin lexer.ignore_tokens /\ ~StartsWith(Text, <<"%", "c", "\n", " ">>) =>
        /\ history[1].tok.tok_type = "LINE_STATEMENT_PREFIX"
        /\ history[2].tok.tok_type = "NAME_OR_KEYWORD"
        /\ history[3].tok.tok_type = "STATEMENT_END"
        /\ history[3].state = 0

\* whitespace ignored, the next line without leading whitespace
C22_LineBreakEndsStatementIgnoringWs ==
    pc \in {"raw", "raised"} /\ OpensWithLineStatement /\ Len(history) >= 3
    /\ "WS" \in lexer.ignore_tokens /\ ~StartsWith(Text, <<"%", "c", "\n", " ">>) =>
        history[3].tok.tok_type = "STATEMENT_END"

(***************************************************************************)
(* C23.  Inside an inline expression a + or - directly followed by a       *)
(* decimal digit starts one signed NUM_LIT token (its text includes the    *)
(* sign, its value is the signed number); a + or - not followed by a digit *)
(* is one MATH_OP_OR_STAR_ARGS token.  Stated for {{ sign body }} with a   *)
(* body of digits, or a body that does not start with a digit.             *)
(***************************************************************************)
IsSignedText(t) ==
    /\ Len(t) >= 5 /\ StartsWith(t, <<"{", "{">>) /\ EndsWith(t, <<"}", "}">>)
    /\ t[3] \in {"+", "-"}
    /\ CharsOf(SubSeq(t, 4, Len(t) - 2)) \subseteq {"0", "1", "x", " "}

SignedBody(t) == SubSeq(t, 4, Len(t) - 2)

RECURSIVE Decimal(_)
Decimal(digits) ==
    IF digits = <<>> THEN 0
    ELSE 10 * Decimal(SubSeq(digits, 1, Len(digits) - 1))
         + (IF digits[Len(digits)] = "1" THEN 1 ELSE 0)

SignOf(t) == IF t[3] = "-" THEN -1 ELSE 1

C23_SignedNumber ==
    pc \in {"returned", "raised"} /\ IsSignedText(Text)
    /\ SignedBody(Text) # <<>> /\ CharsOf(SignedBody(Text)) \subseteq {"0", "1"} =>
        /\ pc = "returned"
        /\ Len(elements) = 1 /\ elements[1].kind = "TemplateInline"
        /\ Len(elements[1].tokens) = 1
        /\ elements[1].tokens[1].tok_type = "NUM_LIT"
        /\ elements[1].tokens[1].text = <<Text[3]>> \o SignedBody(Text)
        /\ elements[1].tokens[1].value = IntVal(SignOf(Text) * Decimal(SignedBody(Text)))

\* the other half: a sign not followed by a digit is an operator token
C23_SignIsOperator ==
    pc \in {"returned", "raised"} /\ IsSignedText(Text)
    /\ (SignedBody(Text) = <<>> \/ SignedBody(Text)[1] \in {"x", " "}) =>
        /\ pc = "returned"
        /\ Len(elements) = 1 /\ elements[1].kind = "TemplateInline"
        /\ elements[1].tokens # <<>>
        /\ elements[1].tokens[1].tok_type = "MATH_OP_OR_STAR_ARGS"
        /\ elements[1].tokens[1].text = <<Text[3]>>

(***************************************************************************)
(* C24.  A literal 0, a radix letter (b B, o O, x X) and digits of that    *)
(* radix is one NUM_LIT token whose value is the integer the digits denote *)
(* in that radix: 0b101 and 0B101 give 5, 0o17 and 0O17 give 15, 0x1F and  *)
(* 0X1F give 31.                                                           *)
(***************************************************************************)
RadixCases ==
    { [text |-> <<"0", "b", "1", "0", "1">>, value |-> 5],
      [text |-> <<"0", "B", "1", "0", "1">>, value |-> 5],
      [text |-> <<"0", "o", "1", "7">>, value |-> 15],
      [text |-> <<"0", "O", "1", "7">>, value |-> 15],
      [text |-> <<"0", "x", "1", "F">>, value |-> 31],
      [text |-> <<"0", "X", "1", "F">>, value |-> 31] }

IsRadixValue(c) ==
    /\ pc = "returned"
    /\ Len(elements) = 1 /\ elements[1].kind = "TemplateInline"
    /\ Len(elements[1].tokens) = 1
    /\ elements[1].tokens[1].tok_type = "NUM_LIT"
    /\ elements[1].tokens[1].text = c.text
    /\ elements[1].tokens[1].value = IntVal(c.value)

C24_RadixLiteral ==
    pc \in {"returned", "raised"} =>
        \A c \in RadixCases :
            Text = <<"{", "{">> \o c.text \o <<"}", "}">> => IsRadixValue(c)

\* the same for the octal and hexadecimal prefixes alone
C24_OctalHexLiteral ==
    pc \in {"returned", "raised"} =>
        \A c \in RadixCases :
            Text = <<"{", "{">> \o c.text \o <<"}", "}">> /\ c.text[2] \notin {"b", "B"} =>
                IsRadixValue(c)

(***************************************************************************)
(* C25.  is_ws answers True for every code point of the list 32, 9 to 13,  *)
(* 160, 5760, 8192 to 8202, 8232, 8233, 8239, 8287, 12288, and False for   *)
(* the end sentinel -1.                                                    *)
(***************************************************************************)
ListedWhitespace ==
    {32} \cup 9..13 \cup {160, 5760} \cup 8192..8202 \cup {8232, 8233, 8239, 8287, 12288}

C25_ListedWhitespace ==
    pc = "classified" =>
        /\ history[1].ch \in ListedWhitespace => history[1].rv = TRUE
        /\ history[1].ch = -1 => history[1].rv = FALSE

\* the same with 5760 left out of the list
C25_ListedWhitespaceBut5760 ==
    pc = "classified" =>
        /\ history[1].ch \in ListedWhitespace \ {5760} => history[1].rv = TRUE
        /\ history[1].ch = -1 => history[1].rv = FALSE

(***************************************************************************)
(* C26.  A call in template-text state that runs into the end of the input *)
(* returns the literal it has gathered as one template-data token, the     *)
(* tail of the text, and the call after it returns EOF.  Once any call has *)
(* returned EOF, every later _next_token(), and every later next_token()   *)
(* or la(k) that finds la_buf empty, returns EOF too, in whatever lexical  *)
(* state the lexer is, and no call raises.                                 *)
(***************************************************************************)
IsEof(i) == history[i].tok.tok_type = "EOF"

\* the call found nothing buffered ahead
Drained(i) == history[i].op = "_next_token" \/ history[i].buffered = 0

\* a call that produced its token in template-text state
InTemplateText(i) == Drained(i) /\ history[i].op # "la" /\ history[i].state = 0

\* a template-text call that ended on the end of the input, not on a delimiter
FinalLiteral(i) == InTemplateText(i) /\ history[i].left = 0 /\ history[i].tok.tok_type = "TEMPLATE_DATA"

\* what the i-th call found unread
Unread(i) == SubSeq(Text, history[i].pos + 1, Len(Text))

C26_EofRepeats ==
    pc \in {"eof", "raised"} =>
        /\ \A i \in 1..Len(history) :
              /\ FinalLiteral(i) =>
                    /\ history[i].tok.text # <<>> /\ history[i].tok.text = Unread(i)
                    /\ (i < Len(history) /\ Drained(i + 1)) => IsEof(i + 1)
              /\ (InTemplateText(i) /\ IsEof(i)) => Unread(i) = <<>>
        /\ \A i \in 1..Len(history) : \A j \in (i + 1)..Len(history) :
              (IsEof(i) /\ Drained(j)) => IsEof(j)
        /\ (pc = "raised" => \A i \in 1..Len(history) : ~IsEof(i))

\* the final literal, then EOF, then EOF again from _next_token() and from la(k)
C26_Witness ==
    /\ pc = "eof"
    /\ Len(history) = MaxEofCalls
    /\ FinalLiteral(1)
    /\ history[2].op = "next_token" /\ IsEof(2)
    /\ \E j \in 3..Len(history) : history[j].op = "_next_token" /\ IsEof(j)
    /\ \E j \in 3..Len(history) : history[j].op = "la" /\ history[j].k = MaxEofK /\ IsEof(j)

(***************************************************************************)
(* C27.  Under any interleaving of next_token() and la(k) on one lexer,    *)
(* la(k) returns the token that the k-th next_token() call after it        *)
(* returns, two la calls that look at the same place return the same       *)
(* token, and the tokens next_token() delivers are those it delivers on a  *)
(* lexer of the same text on which la is never called.                     *)
(***************************************************************************)
\* what n calls of next_token() return on L when nothing else is called
RECURSIVE NextTokenRun(_, _)
NextTokenRun(L, n) ==
    IF n = 0 THEN <<>>
    ELSE Bind(next_token(L), LAMBDA r :
         IF r.exc # NoExc THEN <<>> ELSE <<r.tok>> \o NextTokenRun(r.L, n - 1))

\* the place in the delivered sequence that the i-th call is about
PlaceOf(i) == Consumed(i) + history[i].k

C27_LaTransparent ==
    pc \in {"client", "raised"} =>
        /\ \A i \in 1..Len(history) : \A j \in (i + 1)..Len(history) :
              (history[i].op = "la" /\ PlaceOf(i) = PlaceOf(j)) => history[j].tok = history[i].tok
        /\ \E run \in {NextTokenRun(FreshLexer, Consumed(Len(history) + 1))} :
              \A j \in 1..Len(history) :
                 history[j].op = "next_token" =>
                    /\ PlaceOf(j) <= Len(run)
                    /\ history[j].tok = run[PlaceOf(j)]

\* la(k) with the largest k, then the k calls of next_token() that reach the
\* token it returned, past a token of another kind
C27_Witness ==
    /\ pc = "client"
    /\ Len(history) = MaxK + 1
    /\ history[1].op = "la" /\ history[1].k = MaxK
    /\ \A j \in 2..(MaxK + 1) : history[j].op = "next_token"
    /\ history[MaxK + 1].tok = history[1].tok
    /\ history[2].tok.tok_type # history[1].tok.tok_type
    /\ history[1].tok.tok_type # "EOF"
    /\ lexer.ignore_tokens # {}

(***************************************************************************)
(* C28.  choose_accept returns the first produced type when the header is  *)
(* empty, None when no item of the header matches a produced type, and     *)
(* otherwise a produced type that is matched by an item of the highest     *)
(* quality among the items that match some produced type, wherever that    *)
(* item stands in the header.                                              *)
(***************************************************************************)
\* the quality a client gave an item: the q it wrote, 1.0 when it wrote none
ClientQuality(it) == IF it.q = NONE THEN FloatVal(1, 0) ELSE py_float(it.q).rv

\* the item matches the produced type
Accepts(it, produced) ==
    \E m \in {accept_element_pattern(produced)} :
       m.matched /\ matches(AcceptItem(it.type, it.subtype, ClientQuality(it)), AcceptItem(m.type, m.subtype, FloatVal(1, 0)))

Produced == {frame.produces_list[j] : j \in 1..Len(frame.produces_list)}

\* the items of the header that match at least one produced type
Matching == {i \in 1..Len(frame.items) : \E produced \in Produced : Accepts(frame.items[i], produced)}

Preferred == {i \in Matching : \A j \in Matching : ~FloatLess(ClientQuality(frame.items[i]), ClientQuality(frame.items[j]))}

C28_HonoursQuality ==
    pc = "chosen" =>
        \E rv \in {history[1].rv} :
           IF frame.items = <<>> THEN rv = frame.produces_list[1]
           ELSE IF Matching = {} THEN rv = NONE
           ELSE rv \in Produced /\ \E i \in Preferred : Accepts(frame.items[i], rv)

\* the empty header and the header that matches nothing
C28_EmptyOrUnmatched ==
    pc = "chosen" =>
        \E rv \in {history[1].rv} :
           /\ frame.items = <<>> => rv = frame.produces_list[1]
           /\ (frame.items # <<>> /\ Matching = {}) => rv = NONE
           /\ rv # NONE => rv \in Produced

(***************************************************************************)
(* C29.  With caching enabled, a call of an up_to_date callable returns    *)
(* False whenever the template file's modification time is, at the call,   *)
(* later than it was when the callable's template was loaded.              *)
(***************************************************************************)
\* the file was written after the load that the i-th check belongs to
ModifiedSinceLoad(i) == history[i].st_mtime > history[i].current_mtime

C29_ModifiedNeverCurrent ==
    (pc \in {"loader", "raised"} /\ frame.do_cache) =>
        \A i \in 1..Len(history) : ModifiedSinceLoad(i) => ~history[i].rv

\* without caching every check answers False, and with it the first check of
\* a template does
C29_FirstCheckReloads ==
    pc \in {"loader", "raised"} =>
        \A i \in 1..Len(history) :
           /\ ~frame.do_cache => ~history[i].rv
           /\ (\A j \in 1..(i - 1) : elements[history[j].loaded].target # elements[history[i].loaded].target)
                 => ~history[i].rv

====
